---- MODULE Spec2Model ----
(***************************************************************************)
(* Verification model of the report normalization engine of                *)
(* vuln-report-extractor: the merge / dedup / renumber stage               *)
(* (rsas2check.py merge_vulns, merge_ports; rsas.py main), the severity    *)
(* normalizer, the text cleaner, the column resolver, the extraction       *)
(* strategies of rsas2check.py, the filter of nessus.py main and the       *)
(* steps of controller.py main.                                            *)
(*                                                                         *)
(* Text is modelled as a sequence of characters.  A character is a string  *)
(* naming it: an ASCII character is itself ("a", " ", "["), any other      *)
(* character is written by its code point ("U4E2D" is the character        *)
(* U+4E2D).  Chars("abc") is the text of an ASCII literal.                 *)
(*                                                                         *)
(* A record (a dict with the eight canonical keys, or a DataFrame row) is  *)
(* a TLA+ record with the fields                                           *)
(*   seq  = 序号   IP = IP      port = 端口     name = 漏洞名称            *)
(*   risk = 风险等级  desc = 漏洞说明  fix = 加固建议  CVE = CVE           *)
(* The seven non-sequence fields hold text.  The 序号 cell holds <<>> for  *)
(* the empty string and IntCell(n), the digits of n, for the integer n.    *)
(***************************************************************************)
EXTENDS Integers, Sequences, FiniteSets, TLC

VARIABLES
    fn,      \* the function under call ("merge_vulns", "normalize_risk", ...)
    arg,     \* its input
    res,     \* its result, None before the call returns
    pc,      \* "ready" before the call, "done" after it; in the runs of the
             \* tools "idle", "reported", "merged" or "failed"
    report,  \* 漏洞报告.xlsx: the rows rsas.py main reads, NoFile when absent
    zhg,     \* 中高危漏洞.xlsx: the persisted table, NoFile when absent
    run      \* the last run of rsas.py main: what it read and what it wrote

vars == <<fn, arg, res, pc, report, zhg, run>>

None == <<"None">>

\* a workbook is its header row and its data rows, each row a sequence of
\* cells; a blank cell (read back as NaN) is the empty text
NoFile == [exists |-> FALSE, columns |-> <<>>, rows |-> <<>>]

---------------------------------------------------------------------------
(* Bounds of the model *)

MaxBatch == 3     \* records in the two batches given to merge_vulns, together
MaxPairs == 3     \* (ip, port) pairs given to merge_ports
MaxRows == 3      \* rows of a table given to renumber
MaxCols == 2      \* observed columns given to the column resolver
MaxFrags == 2     \* fragments a severity token is put together from
MaxText == 4      \* characters of a text given to the text cleaner
MaxList == 2      \* elements of a list given to the text cleaner
MaxItem == 2      \* characters of an element of such a list
MaxReport == 2    \* records rsas2check.py parses for one 漏洞报告.xlsx
MaxTable == 4     \* rows of 中高危漏洞.xlsx
MaxAlign == 2     \* rows of a source table given to align_df_to_target
MaxTables == 2    \* tables of a document given to parse_html_file
MaxDocs == 3      \* HTML reports of a folder given to process_folder
MaxTrs == 2       \* data rows of a table given to extract_from_table
MaxKeys == 2      \* keys of a raw record given to normalize_record
MaxScan == 5      \* characters of a text given to _extract_js_object_by_marker
MaxBlocks == 2    \* text blocks of a document given to extract_from_blocks
MaxScanRows == 2  \* findings nessus.py reads from the merged scan

---------------------------------------------------------------------------
(* Text primitives (Python str) *)

Chars(s) == [i \in 1..Len(s) |-> SubSeq(s, i, i)]

\* the characters str.strip() removes that occur in the model
Whitespace == {" ", "\t", "\n", "\r", "U3000"}

RECURSIVE LStripChars(_, _)
LStripChars(s, cs) ==
    IF s # <<>> /\ Head(s) \in cs THEN LStripChars(Tail(s), cs) ELSE s

RECURSIVE RStripChars(_, _)
RStripChars(s, cs) ==
    IF s # <<>> /\ s[Len(s)] \in cs
    THEN RStripChars(SubSeq(s, 1, Len(s) - 1), cs)
    ELSE s

\* s.strip(chars)
StripChars(s, cs) == RStripChars(LStripChars(s, cs), cs)

\* s.strip()
Strip(s) == StripChars(s, Whitespace)

\* needle in hay (Python substring test; the empty text is in every text)
Contains(hay, needle) ==
    \E i \in 1..(Len(hay) - Len(needle) + 1) :
        SubSeq(hay, i, i + Len(needle) - 1) = needle

\* the printable ASCII characters, from code point 32 (the grave accent is
\* written by its code point)
Ascii ==
    <<" ", "!", "\"", "#", "$", "%", "&", "'", "(", ")", "*", "+",
      ",", "-", ".", "/", "0", "1", "2", "3", "4", "5", "6", "7",
      "8", "9", ":", ";", "<", "=", ">", "?", "@", "A", "B", "C",
      "D", "E", "F", "G", "H", "I", "J", "K", "L", "M", "N", "O",
      "P", "Q", "R", "S", "T", "U", "V", "W", "X", "Y", "Z", "[",
      "\\", "]", "^", "_", "U0060", "a", "b", "c", "d", "e", "f", "g",
      "h", "i", "j", "k", "l", "m", "n", "o", "p", "q", "r", "s",
      "t", "u", "v", "w", "x", "y", "z", "{", "|", "}", "~">>

HexDigit(d) == (CHOOSE i \in 1..16 : SubSeq("0123456789ABCDEF", i, i) = d) - 1

\* ord(c)
CodePoint(c) ==
    IF Len(c) = 1
    THEN CASE c = "\t" -> 9
           [] c = "\n" -> 10
           [] c = "\r" -> 13
           [] OTHER -> 31 + (CHOOSE i \in 1..Len(Ascii) : Ascii[i] = c)
    ELSE 4096 * HexDigit(SubSeq(c, 2, 2)) + 256 * HexDigit(SubSeq(c, 3, 3))
         + 16 * HexDigit(SubSeq(c, 4, 4)) + HexDigit(SubSeq(c, 5, 5))

\* a < b for two texts (Python compares str by code points)
RECURSIVE TextLess(_, _)
TextLess(a, b) ==
    IF b = <<>> THEN FALSE
    ELSE IF a = <<>> THEN TRUE
    ELSE IF Head(a) = Head(b) THEN TextLess(Tail(a), Tail(b))
    ELSE CodePoint(Head(a)) < CodePoint(Head(b))

\* c.lower() of one character: only A-Z have a lower case in the model
LowerChar(c) ==
    IF Len(c) = 1 /\ CodePoint(c) >= 65 /\ CodePoint(c) <= 90
    THEN Ascii[CodePoint(c) + 32 - 31]
    ELSE c

\* s.lower()
Lower(s) == [i \in 1..Len(s) |-> LowerChar(s[i])]

\* s with every character of cs removed
Remove(s, cs) == SelectSeq(s, LAMBDA c : c \notin cs)

\* the cell of the integer n >= 0: its decimal digits, str(n)
RECURSIVE IntCell(_)
IntCell(n) ==
    IF n < 10 THEN <<Ascii[n + 17]>>
    ELSE IntCell(n \div 10) \o <<Ascii[(n % 10) + 17]>>

---------------------------------------------------------------------------
(* rsas2check.py: merge and renumber *)

\* a key that leaves the CVE out
VulnKeyNoCVE(r) == <<Strip(r.IP), Strip(r.port), Strip(r.name)>>

\* the identity of a record: the key tuple of merge_vulns
VulnKey(r) == <<Strip(r.IP), Strip(r.port), Strip(r.name), Strip(r.CVE)>>

\* a dedup loop in which a later record of a key replaces the one kept
RECURSIVE DedupVulnsLastWins(_, _, _)
DedupVulnsLastWins(records, seen, out) ==
    IF records = <<>> THEN out
    ELSE LET r == Head(records)
             key == VulnKey(r)
         IN  IF key \in seen
             THEN DedupVulnsLastWins(Tail(records), seen,
                      [i \in 1..Len(out) |-> IF VulnKey(out[i]) = key THEN r ELSE out[i]])
             ELSE DedupVulnsLastWins(Tail(records), seen \cup {key}, Append(out, r))

\* the loop of merge_vulns that keeps the first record of every key
RECURSIVE DedupVulns(_, _, _)
DedupVulns(records, seen, out) ==
    IF records = <<>> THEN out
    ELSE LET r == Head(records)
             key == VulnKey(r)
         IN  IF key \in seen
             THEN DedupVulns(Tail(records), seen, out)
             ELSE DedupVulns(Tail(records), seen \cup {key}, Append(out, r))

\* an enumeration that starts at 0
EnumerateFromZero(out) == [i \in 1..Len(out) |-> [out[i] EXCEPT !.seq = IntCell(i - 1)]]

\* for i, r in enumerate(out, start=1): r['序号'] = i
Enumerate(out) == [i \in 1..Len(out) |-> [out[i] EXCEPT !.seq = IntCell(i)]]

\* if not r.get(k): r[k] = ''   (a text is falsy exactly when it is empty)
FillEmpty(r) ==
    [f \in DOMAIN r |-> IF f # "seq" /\ r[f] = <<>> THEN <<>> ELSE r[f]]

merge_vulns(records) ==
    LET out == Enumerate(DedupVulns(records, {}, <<>>))
    IN  [i \in 1..Len(out) |-> FillEmpty(out[i])]

\* the list given to merge_vulns as the call leaves it: out holds the dicts
\* of records themselves (out.append(r)), so the first dict of every key is
\* the dict returned at its place in out, with 序号 written into it; the
\* dicts of the duplicates are not touched
WrittenByMerge(records) ==
    LET out == merge_vulns(records)
        first(p) == \A q \in 1..(p - 1) : VulnKey(records[q]) # VulnKey(records[p])
        rank(p) == Cardinality({q \in 1..p : first(q)})
    IN  [p \in 1..Len(records) |->
            IF first(p) /\ rank(p) <= Len(out) THEN out[rank(p)] ELSE records[p]]

\* the loop of merge_ports: a pair with an empty component is skipped, the
\* first pair of every trimmed key is stored trimmed
RECURSIVE DedupPorts(_, _, _)
DedupPorts(pairs, seen, out) ==
    IF pairs = <<>> THEN out
    ELSE LET ip == Head(pairs)[1]
             port == Head(pairs)[2]
             key == <<Strip(ip), Strip(port)>>
         IN  IF ip = <<>> \/ port = <<>>
             THEN DedupPorts(Tail(pairs), seen, out)
             ELSE IF key \in seen
             THEN DedupPorts(Tail(pairs), seen, out)
             ELSE DedupPorts(Tail(pairs), seen \cup {key},
                      Append(out, [seq |-> <<>>, IP |-> key[1], port |-> key[2]]))

merge_ports(pairs) == Enumerate(DedupPorts(pairs, {}, <<>>))

---------------------------------------------------------------------------
(* rsas.py: renumber *)

\* df["序号"] = range(1, len(df) + 1), 序号 moved to the first column
renumber(df) == [i \in 1..Len(df) |-> [df[i] EXCEPT !.seq = IntCell(i)]]

---------------------------------------------------------------------------
(* rsas.py: the column resolver *)

\* TARGET_COLS: 序号, IP, 端口, 漏洞名称, 风险等级, 漏洞说明, 加固建议, CVE
TARGET_COLS == <<"seq", "IP", "port", "name", "risk", "desc", "fix", "CVE">>

\* the header text of every canonical column
ColumnName ==
    [seq |-> <<"U5E8F", "U53F7">>,
     IP |-> Chars("IP"),
     port |-> <<"U7AEF", "U53E3">>,
     name |-> <<"U6F0F", "U6D1E", "U540D", "U79F0">>,
     risk |-> <<"U98CE", "U9669", "U7B49", "U7EA7">>,
     desc |-> <<"U6F0F", "U6D1E", "U8BF4", "U660E">>,
     fix |-> <<"U52A0", "U56FA", "U5EFA", "U8BAE">>,
     CVE |-> Chars("CVE")]

COLUMN_CANDIDATES ==
    [\* 序号: 序号, id, 编号, no, number
     seq |-> <<<<"U5E8F", "U53F7">>,
               Chars("id"),
               <<"U7F16", "U53F7">>,
               Chars("no"),
               Chars("number")>>,
     \* IP: IP, IP地址, ipaddress, ip address, host
     IP |-> <<Chars("IP"),
              Chars("IP") \o <<"U5730", "U5740">>,
              Chars("ipaddress"),
              Chars("ip address"),
              Chars("host")>>,
     \* 端口: 端口, port
     port |-> <<<<"U7AEF", "U53E3">>,
                Chars("port")>>,
     \* 漏洞名称: 漏洞名称, 名称, 漏洞, vuln name, vulnerability name
     name |-> <<<<"U6F0F", "U6D1E", "U540D", "U79F0">>,
                <<"U540D", "U79F0">>,
                <<"U6F0F", "U6D1E">>,
                Chars("vuln name"),
                Chars("vulnerability name")>>,
     \* 风险等级: 风险等级, 等级, risk level, severity
     risk |-> <<<<"U98CE", "U9669", "U7B49", "U7EA7">>,
                <<"U7B49", "U7EA7">>,
                Chars("risk level"),
                Chars("severity")>>,
     \* 漏洞说明: 漏洞说明, 漏洞描述, 描述, description
     desc |-> <<<<"U6F0F", "U6D1E", "U8BF4", "U660E">>,
                <<"U6F0F", "U6D1E", "U63CF", "U8FF0">>,
                <<"U63CF", "U8FF0">>,
                Chars("description")>>,
     \* 加固建议: 加固建议, 整改建议, 修复建议, 建议, recommendation, remediation
     fix |-> <<<<"U52A0", "U56FA", "U5EFA", "U8BAE">>,
               <<"U6574", "U6539", "U5EFA", "U8BAE">>,
               <<"U4FEE", "U590D", "U5EFA", "U8BAE">>,
               <<"U5EFA", "U8BAE">>,
               Chars("recommendation"),
               Chars("remediation")>>,
     \* CVE: CVE, 漏洞CVE编号, CVE编号, cve id, 漏洞CVE
     CVE |-> <<Chars("CVE"),
               <<"U6F0F", "U6D1E">> \o Chars("CVE") \o <<"U7F16", "U53F7">>,
               Chars("CVE") \o <<"U7F16", "U53F7">>,
               Chars("cve id"),
               <<"U6F0F", "U6D1E">> \o Chars("CVE")>>]

\* the characters re.sub(r'[\s_：:，,。\.\-]+', '', s) removes
Separators == Whitespace \cup {"_", "UFF1A", ":", "UFF0C", ",", "U3002", ".", "-"}

\* normalize(s): trimmed, lower case, separators removed
normalize(s) == Remove(Lower(Strip(s)), Separators)

\* the keys of norm_map in insertion order: the normalized names of the
\* columns, each at the place of its first occurrence
RECURSIVE Norms(_)
Norms(columns) ==
    IF columns = <<>> THEN <<>>
    ELSE LET init == Norms(SubSeq(columns, 1, Len(columns) - 1))
             n == normalize(columns[Len(columns)])
         IN  IF \E i \in 1..Len(init) : init[i] = n THEN init ELSE Append(init, n)

\* norm_map[n]: the last column that normalizes to n (a later entry of the
\* dict comprehension overwrites an earlier one)
NormMap(columns, n) ==
    columns[CHOOSE i \in 1..Len(columns) :
                /\ normalize(columns[i]) = n
                /\ \A j \in (i + 1)..Len(columns) : normalize(columns[j]) # n]

\* difflib.SequenceMatcher: the length of the common run of a from i and of b
\* from j, within a[..ahi-1] and b[..bhi-1]
RECURSIVE RunLen(_, _, _, _, _, _)
RunLen(a, b, i, j, ahi, bhi) ==
    IF i < ahi /\ j < bhi /\ a[i] = b[j]
    THEN 1 + RunLen(a, b, i + 1, j + 1, ahi, bhi)
    ELSE 0

\* SequenceMatcher.find_longest_match(alo, ahi, blo, bhi) without junk:
\* <<i, j, k>> with k maximal, then i minimal, then j minimal
find_longest_match(a, b, alo, ahi, blo, bhi) ==
    LET P == (alo..(ahi - 1)) \X (blo..(bhi - 1))
        L == [p \in P |-> RunLen(a, b, p[1], p[2], ahi, bhi)]
        sizes == {L[p] : p \in P} \cup {0}
        k == CHOOSE n \in sizes : \A m \in sizes : m <= n
        longest == {p \in P : L[p] = k}
    IN  IF k = 0 THEN <<alo, blo, 0>>
        ELSE LET best == CHOOSE p \in longest :
                     \A q \in longest :
                         \/ p[1] < q[1]
                         \/ p[1] = q[1] /\ p[2] <= q[2]
             IN  <<best[1], best[2], k>>

\* the total size of SequenceMatcher.get_matching_blocks(): the longest
\* match, then the same to its left and to its right
RECURSIVE Matches(_, _, _, _, _, _)
Matches(a, b, alo, ahi, blo, bhi) ==
    LET m == find_longest_match(a, b, alo, ahi, blo, bhi)
    IN  IF m[3] = 0 THEN 0
        ELSE m[3] + Matches(a, b, alo, m[1], blo, m[2])
                  + Matches(a, b, m[1] + m[3], ahi, m[2] + m[3], bhi)

\* SequenceMatcher(None, a, b).ratio() = 2.0 * matches / (len(a) + len(b)),
\* as the fraction <<numerator, denominator>>; 1.0 for two empty texts
Ratio(a, b) ==
    IF Len(a) + Len(b) = 0 THEN <<1, 1>>
    ELSE <<2 * Matches(a, b, 1, Len(a) + 1, 1, Len(b) + 1), Len(a) + Len(b)>>

\* cutoff=0.6 as a fraction
CutoffNum == 6
CutoffDen == 10

\* x >= y for two fractions
FracGeq(x, y) == x[1] * y[2] >= y[1] * x[2]

\* difflib.get_close_matches(word, possibilities, n=1, cutoff=0.6): the
\* possibility of the greatest (ratio, possibility) among those of ratio at
\* least the cutoff (real_quick_ratio and quick_ratio are upper bounds of
\* ratio and filter nothing more), as a list of at most one text
get_close_matches(word, possibilities) ==
    LET score == [i \in 1..Len(possibilities) |-> Ratio(possibilities[i], word)]
        ok == {i \in 1..Len(possibilities) : FracGeq(score[i], <<CutoffNum, CutoffDen>>)}
    IN  IF ok = {} THEN <<>>
        ELSE LET best == CHOOSE i \in ok :
                     \A j \in ok \ {i} :
                         \/ ~FracGeq(score[j], score[i])
                         \/ /\ FracGeq(score[i], score[j])
                            /\ TextLess(possibilities[j], possibilities[i])
             IN  <<possibilities[best]>>

\* first loop: the first alias that is a key of norm_map
ExactStageSkipped(target_keywords, columns) == None

ExactStage(target_keywords, columns) ==
    LET norms == Norms(columns)
        hit == {k \in 1..Len(target_keywords) :
                   \E i \in 1..Len(norms) : norms[i] = normalize(target_keywords[k])}
    IN  IF hit = {} THEN None
        ELSE LET k == CHOOSE k \in hit : \A m \in hit : k <= m
             IN  NormMap(columns, normalize(target_keywords[k]))

\* a substring stage that matches in both directions
SubstringStageBothWays(target_keywords, columns) ==
    LET norms == Norms(columns)
        In(k, i) == LET nk == normalize(target_keywords[k])
                    IN  /\ nk # <<>>
                        /\ \/ Contains(norms[i], nk)
                           \/ norms[i] # <<>> /\ Contains(nk, norms[i])
        hit == {k \in 1..Len(target_keywords) : \E i \in 1..Len(norms) : In(k, i)}
    IN  IF hit = {} THEN None
        ELSE LET k == CHOOSE k \in hit : \A m \in hit : k <= m
                 i == CHOOSE i \in 1..Len(norms) :
                          In(k, i) /\ \A j \in 1..(i - 1) : ~In(k, j)
             IN  NormMap(columns, norms[i])

\* second loop: the first alias, and for it the first key, with the non-empty
\* alias inside the key
SubstringStage(target_keywords, columns) ==
    LET norms == Norms(columns)
        In(k, i) == LET nk == normalize(target_keywords[k])
                    IN  nk # <<>> /\ Contains(norms[i], nk)
        hit == {k \in 1..Len(target_keywords) : \E i \in 1..Len(norms) : In(k, i)}
    IN  IF hit = {} THEN None
        ELSE LET k == CHOOSE k \in hit : \A m \in hit : k <= m
                 i == CHOOSE i \in 1..Len(norms) :
                          In(k, i) /\ \A j \in 1..(i - 1) : ~In(k, j)
             IN  NormMap(columns, norms[i])

\* a fuzzy stage that takes the alias whose closest key has the highest ratio
FuzzyStageBestPair(target_keywords, columns) ==
    LET norms == Norms(columns)
        close == [k \in 1..Len(target_keywords) |->
                     get_close_matches(normalize(target_keywords[k]), norms)]
        hit == {k \in 1..Len(target_keywords) : close[k] # <<>>}
        score(k) == Ratio(close[k][1], normalize(target_keywords[k]))
    IN  IF hit = {} THEN None
        ELSE LET k == CHOOSE k \in hit : \A m \in hit : FracGeq(score(k), score(m))
             IN  NormMap(columns, close[k][1])

\* third loop: the first alias with a close match, and its closest key
FuzzyStage(target_keywords, columns) ==
    LET norms == Norms(columns)
        close == [k \in 1..Len(target_keywords) |->
                     get_close_matches(normalize(target_keywords[k]), norms)]
        hit == {k \in 1..Len(target_keywords) : close[k] # <<>>}
    IN  IF hit = {} THEN None
        ELSE LET k == CHOOSE k \in hit : \A m \in hit : k <= m
             IN  NormMap(columns, close[k][1])

\* a resolver that tries exact, substring and fuzzy alias by alias
RECURSIVE FindBestAliasByAlias(_, _)
FindBestAliasByAlias(target_keywords, columns) ==
    IF target_keywords = <<>> THEN None
    ELSE LET kw == <<Head(target_keywords)>>
             exact == ExactStage(kw, columns)
             substring == SubstringStage(kw, columns)
             fuzzy == FuzzyStage(kw, columns)
         IN  IF exact # None THEN exact
             ELSE IF substring # None THEN substring
             ELSE IF fuzzy # None THEN fuzzy
             ELSE FindBestAliasByAlias(Tail(target_keywords), columns)

find_best_col_for_target(target_keywords, columns) ==
    LET exact == ExactStage(target_keywords, columns)
        substring == SubstringStage(target_keywords, columns)
    IN  IF exact # None THEN exact
        ELSE IF substring # None THEN substring
        ELSE FuzzyStage(target_keywords, columns)

---------------------------------------------------------------------------
(* rsas2check.py: the severity normalizer *)

\* \w of a str pattern: letters, digits, the underscore, CJK ideographs
IsWordChar(c) ==
    LET n == CodePoint(c)
    IN  \/ n >= 48 /\ n <= 57
        \/ n >= 65 /\ n <= 90
        \/ n >= 97 /\ n <= 122
        \/ n = 95
        \/ n >= 19968 /\ n <= 40959

\* re.search(r'\b(4|5)\b', s)
HasStandalone45(s) ==
    \E i \in 1..Len(s) :
        /\ s[i] \in {"4", "5"}
        /\ i = 1 \/ ~IsWordChar(s[i - 1])
        /\ i = Len(s) \/ ~IsWordChar(s[i + 1])

\* a test that takes the text only when it is one of the words
AnyIsWhole(words, s) == s \in words

\* any(x in s for x in words)
AnyIn(words, s) == \E w \in words : Contains(s, w)

\* the word lists of the four rules: critical 严重 高危 high / 中高 中危
\* medium 中 / low 低 / info 信息 informational
HighWords == {Chars("critical"), <<"U4E25", "U91CD">>, <<"U9AD8", "U5371">>, Chars("high")}
MediumWords == {<<"U4E2D", "U9AD8">>, <<"U4E2D", "U5371">>, Chars("medium"), <<"U4E2D">>}
LowWords == {Chars("low"), <<"U4F4E">>}
InfoWords == {Chars("info"), <<"U4FE1", "U606F">>, Chars("informational")}

\* the labels 高, 中, 低, 信息
LabelHigh == <<"U9AD8">>
LabelMedium == <<"U4E2D">>
LabelLow == <<"U4F4E">>
LabelInfo == <<"U4FE1", "U606F">>

\* rules that give the English word for a standalone 4 or 5
RiskRulesEnglishLabel(s, raw) ==
    IF AnyIn(HighWords, s) THEN LabelHigh
    ELSE IF AnyIn(MediumWords, s) THEN LabelMedium
    ELSE IF AnyIn(LowWords, s) THEN LabelLow
    ELSE IF AnyIn(InfoWords, s) THEN LabelInfo
    ELSE IF HasStandalone45(s) THEN Chars("high")
    ELSE raw

\* the rules of normalize_risk on the text s, raw returned when none applies
RiskRules(s, raw) ==
    IF AnyIn(HighWords, s) THEN LabelHigh
    ELSE IF AnyIn(MediumWords, s) THEN LabelMedium
    ELSE IF AnyIn(LowWords, s) THEN LabelLow
    ELSE IF AnyIn(InfoWords, s) THEN LabelInfo
    ELSE IF HasStandalone45(s) THEN LabelHigh
    ELSE raw

\* a normalizer that does not lower the case of the token
NormalizeRiskCaseSensitive(raw) ==
    IF raw = None \/ raw = <<>> THEN <<>> ELSE RiskRules(Strip(raw), raw)

normalize_risk(raw) ==
    IF raw = None \/ raw = <<>> THEN <<>> ELSE RiskRules(Lower(Strip(raw)), raw)

---------------------------------------------------------------------------
(* rsas2check.py: the text cleaner *)

\* the characters of strip("[]'\"")
BracketsAndQuotes == {"[", "]", "'", "\""}

\* str(x).strip().strip("[]'\"")
CleanStr(x) == StripChars(Strip(x), BracketsAndQuotes)

\* "\n".join(texts)
RECURSIVE JoinLines(_)
JoinLines(texts) ==
    IF texts = <<>> THEN <<>>
    ELSE IF Len(texts) = 1 THEN texts[1]
    ELSE texts[1] \o <<"\n">> \o JoinLines(Tail(texts))

\* _clean_text_list_or_str(v); v is [kind |-> "list", val |-> a sequence of
\* texts and None], [kind |-> "str", val |-> a text] or [kind |-> "none"]
clean_text_list_or_str(v) ==
    IF v.kind = "list"
    THEN LET kept == SelectSeq(v.val, LAMBDA x : x # None)
         IN  JoinLines([i \in 1..Len(kept) |-> CleanStr(kept[i])])
    ELSE CleanStr(IF v.kind = "none" THEN <<>> ELSE v.val)

---------------------------------------------------------------------------
(* rsas2check.py: patterns and record normalization *)

\* \d of the patterns, for the digits that occur in the model
IsDigit(c) == c \in {"0", "1", "2", "3", "4", "5", "6", "7", "8", "9"}

\* the length of the longest run of characters of cs that starts at s[i]
RECURSIVE RunOf(_, _, _)
RunOf(s, i, cs) ==
    IF i >= 1 /\ i <= Len(s) /\ s[i] \in cs THEN 1 + RunOf(s, i + 1, cs) ELSE 0

\* the length of the longest run of digits that starts at s[i]
RECURSIVE DigitRun(_, _)
DigitRun(s, i) ==
    IF i >= 1 /\ i <= Len(s) /\ IsDigit(s[i]) THEN 1 + DigitRun(s, i + 1) ELSE 0

\* the smaller of two numbers
Min(a, b) == IF a <= b THEN a ELSE b

\* re.search(r'(\d{1,5})', s): the first run of digits, at most five of them
FirstDigits(s) ==
    IF \E i \in 1..Len(s) : IsDigit(s[i])
    THEN LET i == CHOOSE i \in 1..Len(s) :
                      IsDigit(s[i]) /\ \A j \in 1..(i - 1) : ~IsDigit(s[j])
         IN  SubSeq(s, i, i + Min(DigitRun(s, i), 5) - 1)
    ELSE None

\* the end of the match of CVE_RE that starts at s[i], 0 when there is none:
\* CVE, separators [-_:\s]*, four digits, one of - _, four to seven digits
CveEnd(s, i) ==
    LET j == i + 3 + RunOf(s, i + 3, {"-", "_", ":"} \cup Whitespace)
    IN  IF /\ i + 2 <= Len(s)
           /\ Lower(SubSeq(s, i, i + 2)) = <<"c", "v", "e">>
           /\ DigitRun(s, j) = 4
           /\ j + 4 <= Len(s)
           /\ s[j + 4] \in {"-", "_"}
           /\ DigitRun(s, j + 5) >= 4
        THEN j + 4 + Min(DigitRun(s, j + 5), 7)
        ELSE 0

\* c.upper() of one character: only a-z have an upper case in the model
UpperChar(c) ==
    IF Len(c) = 1 /\ CodePoint(c) >= 97 /\ CodePoint(c) <= 122
    THEN Ascii[CodePoint(c) - 32 - 31]
    ELSE c

\* m = CVE_RE.search(s); m.group(1).upper().replace('_', '-'), None without
\* a match
CveOf(s) ==
    IF \E i \in 1..Len(s) : CveEnd(s, i) # 0
    THEN LET i == CHOOSE i \in 1..Len(s) :
                      CveEnd(s, i) # 0 /\ \A j \in 1..(i - 1) : CveEnd(s, j) = 0
             m == SubSeq(s, i, CveEnd(s, i))
         IN  [k \in 1..Len(m) |-> IF m[k] = "_" THEN "-" ELSE UpperChar(m[k])]
    ELSE None

\* the alternatives of SEV_INLINE_RE in their order: 高危 中危 低危 严重 高 中 低
\* high medium low
SevWords ==
    <<<<"U9AD8", "U5371">>, <<"U4E2D", "U5371">>, <<"U4F4E", "U5371">>,
      <<"U4E25", "U91CD">>, <<"U9AD8">>, <<"U4E2D">>, <<"U4F4E">>,
      Chars("high"), Chars("medium"), Chars("low")>>

\* m = SEV_INLINE_RE.search(s); m.group(1), None without a match: the first
\* alternative that matches at the leftmost position where one matches
SevOf(s) ==
    LET At(i, w) == i + Len(SevWords[w]) - 1 <= Len(s)
                    /\ Lower(SubSeq(s, i, i + Len(SevWords[w]) - 1)) = SevWords[w]
        Hit(i) == \E w \in 1..Len(SevWords) : At(i, w)
    IN  IF \E i \in 1..Len(s) : Hit(i)
        THEN LET i == CHOOSE i \in 1..Len(s) : Hit(i) /\ \A j \in 1..(i - 1) : ~Hit(j)
                 w == CHOOSE w \in 1..Len(SevWords) :
                          At(i, w) /\ \A u \in 1..(w - 1) : ~At(i, u)
             IN  SubSeq(s, i, i + Len(SevWords[w]) - 1)
        ELSE None

\* the keys normalize_record knows for every field: ip host ipaddress 地址 /
\* port 端口 / name title 漏洞名称 vuln 漏洞 / risk 风险等级 severity /
\* description 漏洞说明 desc / recommendation 建议 加固建议 fix solution
FieldKeys ==
    [IP |-> {Chars("ip"), Chars("host"), Chars("ipaddress"), <<"U5730", "U5740">>},
     port |-> {Chars("port"), <<"U7AEF", "U53E3">>},
     name |-> {Chars("name"), Chars("title"), <<"U6F0F", "U6D1E", "U540D", "U79F0">>,
               Chars("vuln"), <<"U6F0F", "U6D1E">>},
     risk |-> {Chars("risk"), <<"U98CE", "U9669", "U7B49", "U7EA7">>, Chars("severity")},
     desc |-> {Chars("description"), <<"U6F0F", "U6D1E", "U8BF4", "U660E">>, Chars("desc")},
     fix |-> {Chars("recommendation"), <<"U5EFA", "U8BAE">>,
              <<"U52A0", "U56FA", "U5EFA", "U8BAE">>, Chars("fix"), Chars("solution")}]

\* the record normalize_record starts from: every field the empty text
EmptyRecord ==
    [seq |-> <<>>, IP |-> <<>>, port |-> <<>>, name |-> <<>>, risk |-> <<>>,
     desc |-> <<>>, fix |-> <<>>, CVE |-> <<>>]

\* a salvaged value is taken as the description when it is longer than this
DescMin == 10

\* a salvage pass that takes the CVE number of the value whatever the field
\* holds
SalvageOverwritesCve(out, val) ==
    LET cve == IF CveOf(val) # None THEN CveOf(val) ELSE out.CVE
        risk == IF out.risk = <<>> /\ SevOf(val) # None
                THEN normalize_risk(SevOf(val))
                ELSE out.risk
        desc == IF Len(val) > DescMin /\ out.desc = <<>> THEN val ELSE out.desc
    IN  [out EXCEPT !.CVE = cve, !.risk = risk, !.desc = desc]

\* the salvage pass of normalize_record for a key that no rule knows
Salvage(out, val) ==
    LET cve == IF CveOf(val) # None /\ out.CVE = <<>> THEN CveOf(val) ELSE out.CVE
        risk == IF out.risk = <<>> /\ SevOf(val) # None
                THEN normalize_risk(SevOf(val))
                ELSE out.risk
        desc == IF Len(val) > DescMin /\ out.desc = <<>> THEN val ELSE out.desc
    IN  [out EXCEPT !.CVE = cve, !.risk = risk, !.desc = desc]

\* a loop body that stores a null value under the key of the address
NormalizeItemStoresNull(out, k, v) ==
    LET key == Lower(Strip(k))
        val == clean_text_list_or_str(v)
    IN  IF v.kind = "none"
        THEN (IF key \in FieldKeys.IP THEN [out EXCEPT !.IP = None] ELSE out)
        ELSE IF key \in FieldKeys.IP THEN [out EXCEPT !.IP = val]
        ELSE IF key \in FieldKeys.port
        THEN [out EXCEPT !.port = IF FirstDigits(val) # None THEN FirstDigits(val) ELSE val]
        ELSE IF key \in FieldKeys.name THEN [out EXCEPT !.name = val]
        ELSE IF key \in FieldKeys.risk THEN [out EXCEPT !.risk = normalize_risk(val)]
        ELSE IF key \in FieldKeys.desc THEN [out EXCEPT !.desc = val]
        ELSE IF key \in FieldKeys.fix THEN [out EXCEPT !.fix = val]
        ELSE IF Contains(key, Chars("cve"))
        THEN [out EXCEPT !.CVE = IF CveOf(val) # None THEN CveOf(val) ELSE val]
        ELSE Salvage(out, val)

\* one turn of the loop of normalize_record over d.items(): k the text of
\* the key, v the value as _clean_text_list_or_str takes it
NormalizeItem(out, k, v) ==
    LET key == Lower(Strip(k))
        val == clean_text_list_or_str(v)
    IN  IF v.kind = "none" THEN out
        ELSE IF key \in FieldKeys.IP THEN [out EXCEPT !.IP = val]
        ELSE IF key \in FieldKeys.port
        THEN [out EXCEPT !.port = IF FirstDigits(val) # None THEN FirstDigits(val) ELSE val]
        ELSE IF key \in FieldKeys.name THEN [out EXCEPT !.name = val]
        ELSE IF key \in FieldKeys.risk THEN [out EXCEPT !.risk = normalize_risk(val)]
        ELSE IF key \in FieldKeys.desc THEN [out EXCEPT !.desc = val]
        ELSE IF key \in FieldKeys.fix THEN [out EXCEPT !.fix = val]
        ELSE IF Contains(key, Chars("cve"))
        THEN [out EXCEPT !.CVE = IF CveOf(val) # None THEN CveOf(val) ELSE val]
        ELSE Salvage(out, val)

RECURSIVE NormalizeItems(_, _)
NormalizeItems(out, items) ==
    IF items = <<>> THEN out
    ELSE NormalizeItems(NormalizeItem(out, items[1][1], items[1][2]), Tail(items))

\* normalize_record(d); d is [kind |-> "dict", items |-> the (key, value)
\* pairs in the order of d.items()] or [kind |-> "other"] for a value that is
\* not a dict
normalize_record(d) ==
    IF d.kind # "dict" THEN EmptyRecord ELSE NormalizeItems(EmptyRecord, d.items)

---------------------------------------------------------------------------
(* rsas2check.py: the extraction cascade of one document *)

\* the dict a strategy builds for a finding, with the keys IP, 端口, 漏洞名称,
\* 风险等级, 漏洞说明, 加固建议, CVE in this order, as normalize_record takes it
AsDict(r) ==
    [kind |-> "dict",
     items |-> <<<<Chars("IP"), [kind |-> "str", val |-> r.IP]>>,
                 <<ColumnName.port, [kind |-> "str", val |-> r.port]>>,
                 <<ColumnName.name, [kind |-> "str", val |-> r.name]>>,
                 <<ColumnName.risk, [kind |-> "str", val |-> r.risk]>>,
                 <<ColumnName.desc, [kind |-> "str", val |-> r.desc]>>,
                 <<ColumnName.fix, [kind |-> "str", val |-> r.fix]>>,
                 <<Chars("CVE"), [kind |-> "str", val |-> r.CVE]>>>>]

\* the rec Strategy A builds for an entry of the embedded data; the fields of
\* the entry are the values the lookups of the code find, sol is None when
\* i18n_solution is missing; the host address is cleaned for a flat entry only
EntryRecord(e) ==
    [IP |-> IF e.kind = "flat"
            THEN clean_text_list_or_str([kind |-> "str", val |-> e.ip])
            ELSE e.ip,
     port |-> e.port,
     name |-> clean_text_list_or_str([kind |-> "str", val |-> e.name]),
     risk |-> normalize_risk(e.level),
     desc |-> clean_text_list_or_str([kind |-> "str", val |-> e.desc]),
     fix |-> IF e.sol = None THEN <<>>
             ELSE clean_text_list_or_str([kind |-> "str", val |-> e.sol]),
     CVE |-> clean_text_list_or_str([kind |-> "str", val |-> e.cve])]

\* the embedded data the document gives to Strategy A: the object after
\* window.data when json.loads takes it (as it is or without its trailing
\* commas), else the object of the first script block that names a
\* vulnerability key and parses; found is FALSE when parsed stays None
EmbeddedData(doc) ==
    LET good == {i \in 1..Len(doc.scripts) : doc.scripts[i].kind = "parsed"}
    IN  IF doc.embedded.kind = "parsed"
        THEN [found |-> TRUE, entries |-> doc.embedded.entries]
        ELSE IF good # {}
        THEN [found |-> TRUE,
              entries |-> doc.scripts[CHOOSE i \in good : \A j \in good : i <= j].entries]
        ELSE [found |-> FALSE, entries |-> <<>>]

\* s[1] \o s[2] \o ... for a sequence of sequences
RECURSIVE Flatten(_)
Flatten(s) == IF s = <<>> THEN <<>> ELSE Head(s) \o Flatten(Tail(s))

\* what Strategy B and Strategy C add to vulns_all and ports_all: the rows
\* and pairs of every table whose extraction does not raise, then those of
\* the text blocks unless their extraction raises
TablesAndBlocks(doc) ==
    LET parts == doc.tables \o <<doc.blocks>>
        kept == SelectSeq(parts, LAMBDA t : t.kind # "error")
    IN  [vulns |-> Flatten([i \in 1..Len(kept) |-> kept[i].vulns]),
         ports |-> Flatten([i \in 1..Len(kept) |-> kept[i].ports])]

\* a cascade that goes on to the tables and blocks when Strategy A has parsed
\* data and found no item in it
ParseFallThroughOnNoItem(doc) ==
    LET data == EmbeddedData(doc)
        dicts == SelectSeq(data.entries, LAMBDA e : e.kind # "other")
        bc == TablesAndBlocks(doc)
    IN  IF data.found /\ \E i \in 1..Len(dicts) : dicts[i].kind = "broken"
        THEN [raised |-> TRUE, vulns |-> <<>>, ports |-> <<>>]
        ELSE IF data.found /\ dicts # <<>>
        THEN [raised |-> FALSE,
              vulns |-> [i \in 1..Len(dicts) |->
                            normalize_record(AsDict(EntryRecord(dicts[i])))],
              ports |-> LET with == SelectSeq(dicts, LAMBDA e : e.ip # <<>> /\ e.port # <<>>)
                        IN  [i \in 1..Len(with) |-> <<with[i].ip, with[i].port>>]]
        ELSE [raised |-> FALSE,
              vulns |-> [i \in 1..Len(bc.vulns) |-> normalize_record(AsDict(bc.vulns[i]))],
              ports |-> bc.ports]

\* a cascade in which a table that raises ends Strategy B and Strategy C
ParseStopAtTableError(doc) ==
    LET data == EmbeddedData(doc)
        dicts == SelectSeq(data.entries, LAMBDA e : e.kind # "other")
        stop == {i \in 1..Len(doc.tables) : doc.tables[i].kind = "error"}
        bc == IF stop = {} THEN TablesAndBlocks(doc)
              ELSE TablesAndBlocks(
                       [doc EXCEPT !.tables = SubSeq(doc.tables, 1,
                                                  (CHOOSE i \in stop : \A j \in stop : i <= j) - 1),
                                   !.blocks = [kind |-> "error"]])
    IN  IF data.found /\ \E i \in 1..Len(dicts) : dicts[i].kind = "broken"
        THEN [raised |-> TRUE, vulns |-> <<>>, ports |-> <<>>]
        ELSE IF data.found
        THEN [raised |-> FALSE,
              vulns |-> [i \in 1..Len(dicts) |->
                            normalize_record(AsDict(EntryRecord(dicts[i])))],
              ports |-> LET with == SelectSeq(dicts, LAMBDA e : e.ip # <<>> /\ e.port # <<>>)
                        IN  [i \in 1..Len(with) |-> <<with[i].ip, with[i].port>>]]
        ELSE [raised |-> FALSE,
              vulns |-> [i \in 1..Len(bc.vulns) |-> normalize_record(AsDict(bc.vulns[i]))],
              ports |-> bc.ports]

\* parse_html_file(path) for a document read with BeautifulSoup present (as
\* ensure_env enforces): with embedded data Strategy A alone decides, an
\* entry that is not a dict is skipped and an entry whose fields cannot be
\* looked up raises; without embedded data Strategy B and Strategy C run and
\* every record is normalized
parse_html_file(doc) ==
    LET data == EmbeddedData(doc)
        dicts == SelectSeq(data.entries, LAMBDA e : e.kind # "other")
        bc == TablesAndBlocks(doc)
    IN  IF data.found /\ \E i \in 1..Len(dicts) : dicts[i].kind = "broken"
        THEN [raised |-> TRUE, vulns |-> <<>>, ports |-> <<>>]
        ELSE IF data.found
        THEN [raised |-> FALSE,
              vulns |-> [i \in 1..Len(dicts) |->
                            normalize_record(AsDict(EntryRecord(dicts[i])))],
              ports |-> LET with == SelectSeq(dicts, LAMBDA e : e.ip # <<>> /\ e.port # <<>>)
                        IN  [i \in 1..Len(with) |-> <<with[i].ip, with[i].port>>]]
        ELSE [raised |-> FALSE,
              vulns |-> [i \in 1..Len(bc.vulns) |-> normalize_record(AsDict(bc.vulns[i]))],
              ports |-> bc.ports]

---------------------------------------------------------------------------
(* rsas2check.py: Strategy B, the rows of a table *)

\* HEADER_MAP in its order, every canonical key with its aliases:
\*   ip: ip 主机 地址 资产地址 host ip地址
\*   port: 端口 服务端口 port 端口号 协议/端口 协议端口 服务 protocol/port
\*   name: 漏洞名称 名称 漏洞 问题 title name
\*   risk: 风险等级 风险 severity 威胁等级 等级
\*   desc: 漏洞说明 漏洞描述 描述 说明 description detail details
\*   fix: 加固建议 修复建议 解决办法 整改建议 处理建议 建议 修复措施 处置建议 remediation solution
\*   cve: cve 编号 cve编号 参考编号 reference vul id
HEADER_MAP ==
    <<
      <<Chars("ip"),
        {Chars("ip"),
         <<"U4E3B", "U673A">>,
         <<"U5730", "U5740">>,
         <<"U8D44", "U4EA7", "U5730", "U5740">>,
         Chars("host"),
         Chars("ip") \o <<"U5730", "U5740">>}>>,
      <<Chars("port"),
        {<<"U7AEF", "U53E3">>,
         <<"U670D", "U52A1", "U7AEF", "U53E3">>,
         Chars("port"),
         <<"U7AEF", "U53E3", "U53F7">>,
         <<"U534F", "U8BAE">> \o Chars("/") \o <<"U7AEF", "U53E3">>,
         <<"U534F", "U8BAE", "U7AEF", "U53E3">>,
         <<"U670D", "U52A1">>,
         Chars("protocol/port")}>>,
      <<Chars("name"),
        {<<"U6F0F", "U6D1E", "U540D", "U79F0">>,
         <<"U540D", "U79F0">>,
         <<"U6F0F", "U6D1E">>,
         <<"U95EE", "U9898">>,
         Chars("title"),
         Chars("name")}>>,
      <<Chars("risk"),
        {<<"U98CE", "U9669", "U7B49", "U7EA7">>,
         <<"U98CE", "U9669">>,
         Chars("severity"),
         <<"U5A01", "U80C1", "U7B49", "U7EA7">>,
         <<"U7B49", "U7EA7">>}>>,
      <<Chars("desc"),
        {<<"U6F0F", "U6D1E", "U8BF4", "U660E">>,
         <<"U6F0F", "U6D1E", "U63CF", "U8FF0">>,
         <<"U63CF", "U8FF0">>,
         <<"U8BF4", "U660E">>,
         Chars("description"),
         Chars("detail"),
         Chars("details")}>>,
      <<Chars("fix"),
        {<<"U52A0", "U56FA", "U5EFA", "U8BAE">>,
         <<"U4FEE", "U590D", "U5EFA", "U8BAE">>,
         <<"U89E3", "U51B3", "U529E", "U6CD5">>,
         <<"U6574", "U6539", "U5EFA", "U8BAE">>,
         <<"U5904", "U7406", "U5EFA", "U8BAE">>,
         <<"U5EFA", "U8BAE">>,
         <<"U4FEE", "U590D", "U63AA", "U65BD">>,
         <<"U5904", "U7F6E", "U5EFA", "U8BAE">>,
         Chars("remediation"),
         Chars("solution")}>>,
      <<Chars("cve"),
        {Chars("cve"),
         <<"U7F16", "U53F7">>,
         Chars("cve") \o <<"U7F16", "U53F7">>,
         <<"U53C2", "U8003", "U7F16", "U53F7">>,
         Chars("reference"),
         Chars("vul id")}>>>>

\* normalize_key(k): the first canonical key that has the lowered, stripped
\* header among its aliases, else that header
normalize_key(k) ==
    LET key == Lower(Strip(k))
        hits == {c \in 1..Len(HEADER_MAP) : key \in HEADER_MAP[c][2]}
    IN  IF hits = {} THEN key
        ELSE HEADER_MAP[CHOOSE c \in hits : \A d \in hits : c <= d][1]

\* the end of the match of IP_RE that starts at s[i], 0 when there is none:
\* three times one to three digits and a dot, then one to three digits
IpEnd(s, i) ==
    LET a == DigitRun(s, i)
        b == DigitRun(s, i + a + 1)
        c == DigitRun(s, i + a + b + 2)
        d == DigitRun(s, i + a + b + c + 3)
        Dot(j) == j <= Len(s) /\ s[j] = "."
    IN  IF /\ a \in 1..3 /\ Dot(i + a)
           /\ b \in 1..3 /\ Dot(i + a + b + 1)
           /\ c \in 1..3 /\ Dot(i + a + b + c + 2)
           /\ d >= 1
        THEN i + a + b + c + 2 + Min(d, 3)
        ELSE 0

\* m = IP_RE.search(s); m.group(1), None without a match
IpOf(s) ==
    IF \E i \in 1..Len(s) : IpEnd(s, i) # 0
    THEN LET i == CHOOSE i \in 1..Len(s) :
                      IpEnd(s, i) # 0 /\ \A j \in 1..(i - 1) : IpEnd(s, j) = 0
         IN  SubSeq(s, i, IpEnd(s, i))
    ELSE None

\* re.fullmatch(r'\d{1,5}', v), which for a stripped cell is also
\* re.search(r'^\d{1,5}$', v)
IsPortText(v) == Len(v) \in 1..5 /\ \A i \in 1..Len(v) : IsDigit(v[i])

\* a row handler that also emits the pair of a vulnerability row that has an
\* address and a port
TableRowAlsoPair(headers_norm, cols) ==
    LET Key(i) == IF i <= Len(headers_norm) THEN headers_norm[i]
                  ELSE Chars("col") \o IntCell(i - 1)
        keys == {Key(i) : i \in 1..Len(cols)}
        Val(k) == cols[CHOOSE i \in 1..Len(cols) :
                           Key(i) = k /\ \A j \in (i + 1)..Len(cols) : Key(j) # k]
        Txt(k) == IF k \in keys
                  THEN clean_text_list_or_str([kind |-> "str", val |-> Val(k)])
                  ELSE <<>>
        Or(m, txt) == IF m # None THEN m ELSE txt
        first == {i \in 1..Len(cols) : \A j \in 1..(i - 1) : Key(j) # Key(i)}
        ips == {i \in first : IpOf(Val(Key(i))) # None}
        ports == {i \in first : IsPortText(Val(Key(i)))}
        joined == Flatten([i \in 1..Len(cols) |->
                              IF i = 1 THEN cols[i] ELSE <<" ">> \o cols[i]])
        vr == [IP |-> Or(IpOf(Txt(Chars("ip"))), Txt(Chars("ip"))),
               port |-> Or(FirstDigits(Txt(Chars("port"))), Txt(Chars("port"))),
               name |-> Txt(Chars("name")),
               risk |-> Or(SevOf(Txt(Chars("risk"))), Txt(Chars("risk"))),
               desc |-> Txt(Chars("desc")),
               fix |-> Txt(Chars("fix")),
               CVE |-> IF Or(CveOf(Txt(Chars("cve"))), Txt(Chars("cve"))) # <<>>
                       THEN Or(CveOf(Txt(Chars("cve"))), Txt(Chars("cve")))
                       ELSE Or(CveOf(joined), <<>>)]
    IN  IF cols = <<>> THEN [vulns |-> <<>>, ports |-> <<>>]
        ELSE [vulns |-> IF vr.name # <<>> \/ vr.desc # <<>> \/ vr.CVE # <<>> \/ vr.risk # <<>>
                        THEN <<vr>> ELSE <<>>,
              ports |-> IF ips # {} /\ ports # {}
                        THEN <<<<IpOf(Val(Key(CHOOSE i \in ips : \A j \in ips : j <= i))),
                                 Val(Key(CHOOSE i \in ports : \A j \in ports : j <= i))>>>>
                        ELSE <<>>]

\* the body of the loop for tr in data_trs: what the row with the cells cols
\* adds to vuln_rows and port_pairs. The dict row keeps every key at the
\* place of its first column with the cell of its last column; a row with
\* an address, a port and none of the
\* keys name, risk, desc, fix, cve gives the pair of the last address and the
\* last port and nothing else; any other row gives the dict vr when its
\* name, description, CVE or severity is not empty
TableRow(headers_norm, cols) ==
    LET Key(i) == IF i <= Len(headers_norm) THEN headers_norm[i]
                  ELSE Chars("col") \o IntCell(i - 1)
        keys == {Key(i) : i \in 1..Len(cols)}
        Val(k) == cols[CHOOSE i \in 1..Len(cols) :
                           Key(i) = k /\ \A j \in (i + 1)..Len(cols) : Key(j) # k]
        Txt(k) == IF k \in keys
                  THEN clean_text_list_or_str([kind |-> "str", val |-> Val(k)])
                  ELSE <<>>
        Or(m, txt) == IF m # None THEN m ELSE txt
        first == {i \in 1..Len(cols) : \A j \in 1..(i - 1) : Key(j) # Key(i)}
        ips == {i \in first : IpOf(Val(Key(i))) # None}
        ports == {i \in first : IsPortText(Val(Key(i)))}
        has_vuln_keys == keys \cap {Chars("name"), Chars("risk"), Chars("desc"),
                                    Chars("fix"), Chars("cve")} # {}
        joined == Flatten([i \in 1..Len(cols) |->
                              IF i = 1 THEN cols[i] ELSE <<" ">> \o cols[i]])
        vr == [IP |-> Or(IpOf(Txt(Chars("ip"))), Txt(Chars("ip"))),
               port |-> Or(FirstDigits(Txt(Chars("port"))), Txt(Chars("port"))),
               name |-> Txt(Chars("name")),
               risk |-> Or(SevOf(Txt(Chars("risk"))), Txt(Chars("risk"))),
               desc |-> Txt(Chars("desc")),
               fix |-> Txt(Chars("fix")),
               CVE |-> IF Or(CveOf(Txt(Chars("cve"))), Txt(Chars("cve"))) # <<>>
                       THEN Or(CveOf(Txt(Chars("cve"))), Txt(Chars("cve")))
                       ELSE Or(CveOf(joined), <<>>)]
    IN  IF cols = <<>> THEN [vulns |-> <<>>, ports |-> <<>>]
        ELSE IF ips # {} /\ ports # {} /\ ~has_vuln_keys
        THEN [vulns |-> <<>>,
              ports |-> <<<<IpOf(Val(Key(CHOOSE i \in ips : \A j \in ips : j <= i))),
                            Val(Key(CHOOSE i \in ports : \A j \in ports : j <= i))>>>>]
        ELSE [vulns |-> IF vr.name # <<>> \/ vr.desc # <<>> \/ vr.CVE # <<>> \/ vr.risk # <<>>
                        THEN <<vr>> ELSE <<>>,
              ports |-> <<>>]

---------------------------------------------------------------------------
(* rsas2check.py: Strategy C, the text blocks of a document *)

\* a block with a shorter text is skipped
MinBlockLen == 20

\* the longest prefix of the block text taken as the name
NameMax == 120

\* the longest prefix of the block text taken as the description
DescMax == 1500

\* label_map of extract_from_blocks, the alternatives of each pattern in lower
\* case (the patterns ignore case): 漏洞名称 名称 问题 title / 漏洞说明 漏洞描述
\* 描述 说明 description / 加固建议 修复建议 整改建议 解决办法 处理建议 solution
\* remediation
label_map ==
    [name |-> {<<"U6F0F", "U6D1E", "U540D", "U79F0">>, <<"U540D", "U79F0">>,
               <<"U95EE", "U9898">>, Chars("title")},
     desc |-> {<<"U6F0F", "U6D1E", "U8BF4", "U660E">>, <<"U6F0F", "U6D1E", "U63CF", "U8FF0">>,
               <<"U63CF", "U8FF0">>, <<"U8BF4", "U660E">>, Chars("description")},
     fix |-> {<<"U52A0", "U56FA", "U5EFA", "U8BAE">>, <<"U4FEE", "U590D", "U5EFA", "U8BAE">>,
              <<"U6574", "U6539", "U5EFA", "U8BAE">>, <<"U89E3", "U51B3", "U529E", "U6CD5">>,
              <<"U5904", "U7406", "U5EFA", "U8BAE">>, Chars("solution"),
              Chars("remediation")}]

\* a block whose fallback name is the whole text, however long
BlockWholeTextAsName(b) ==
    IF Len(b.text) < MinBlockLen THEN [vulns |-> <<>>, ports |-> <<>>]
    ELSE [vulns |-> IF CveOf(b.text) # None \/ SevOf(b.text) # None
                    THEN <<[IP |-> <<>>, port |-> <<>>, name |-> b.text, risk |-> <<>>,
                            desc |-> b.text, fix |-> <<>>, CVE |-> <<>>]>>
                    ELSE <<>>,
          ports |-> <<>>]

\* one turn of the loop of extract_from_blocks; b is [text |-> the text of the
\* block, sibs |-> the texts of the following siblings that are tags]
Block(b) ==
    LET text == b.text
        ip_m == IpOf(text)
        \* PORT_RE: port or 端口, any of whitespace : ：, one to five digits
        PortAt(i) ==
            LET w == IF i + 3 <= Len(text) /\ Lower(SubSeq(text, i, i + 3)) = Chars("port")
                     THEN 4
                     ELSE IF i + 1 <= Len(text) /\ SubSeq(text, i, i + 1) = <<"U7AEF", "U53E3">>
                     THEN 2
                     ELSE 0
                j == i + w + RunOf(text, i + w, Whitespace \cup {":", "UFF1A"})
            IN  IF w # 0 /\ DigitRun(text, j) >= 1
                THEN SubSeq(text, j, j + Min(DigitRun(text, j), 5) - 1)
                ELSE None
        port_m == IF \E i \in 1..Len(text) : PortAt(i) # None
                  THEN PortAt(CHOOSE i \in 1..Len(text) :
                                  PortAt(i) # None /\ \A j \in 1..(i - 1) : PortAt(j) = None)
                  ELSE None
        cve_m == CveOf(text)
        sev_m == SevOf(text)
        \* the dict vr has seven keys, none of them 序号
        vr0 == [IP |-> IF ip_m # None THEN ip_m ELSE <<>>,
                port |-> IF port_m # None THEN port_m ELSE <<>>,
                name |-> <<>>,
                risk |-> IF sev_m # None THEN sev_m ELSE <<>>,
                desc |-> <<>>,
                fix |-> <<>>,
                CVE |-> IF cve_m # None THEN cve_m ELSE <<>>]
        Labelled(f, st) == AnyIn(label_map[f], Lower(st))
        Sib(vr, st) ==
            IF st = <<>> THEN vr
            ELSE [vr EXCEPT
                     !.name = IF vr.name = <<>> /\ Labelled("name", st) THEN st ELSE @,
                     !.desc = IF vr.desc = <<>> /\ Labelled("desc", st) THEN st ELSE @,
                     !.fix = IF vr.fix = <<>> /\ Labelled("fix", st)
                             THEN clean_text_list_or_str([kind |-> "str", val |-> st])
                             ELSE @]
        Sibs[n \in 0..Len(b.sibs)] ==
            IF n = 0 THEN vr0
            ELSE IF Sibs[n - 1].name # <<>> /\ Sibs[n - 1].desc # <<>> /\ Sibs[n - 1].fix # <<>>
            THEN Sibs[n - 1]
            ELSE Sib(Sibs[n - 1], b.sibs[n])
        vr1 == Sibs[Len(b.sibs)]
        vr == [vr1 EXCEPT
                  !.name = IF vr1.name = <<>> THEN SubSeq(text, 1, Min(Len(text), NameMax)) ELSE @,
                  !.desc = IF vr1.desc = <<>> THEN SubSeq(text, 1, Min(Len(text), DescMax)) ELSE @]
    IN  IF Len(text) < MinBlockLen THEN [vulns |-> <<>>, ports |-> <<>>]
        ELSE [vulns |-> IF cve_m # None \/ Contains(text, <<"U6F0F", "U6D1E">>) \/ sev_m # None
                        THEN <<vr>> ELSE <<>>,
              ports |-> IF ip_m # None /\ port_m # None THEN <<<<ip_m, port_m>>>> ELSE <<>>]

---------------------------------------------------------------------------
(* rsas2check.py: Strategy A, the object literal after a marker *)

\* a scan that returns at the first closing brace, whatever the depth
ScanToFirstClose(text, brace_start, i, depth) ==
    LET close == {j \in i..(Len(text) - 1) : text[j + 1] = "}"}
    IN  IF close = {} THEN None
        ELSE SubSeq(text, brace_start + 1, 1 + CHOOSE j \in close : \A k \in close : j <= k)

\* the while loop of _extract_js_object_by_marker from index i (0-based) with
\* the brace depth counted so far
RECURSIVE ScanBraces(_, _, _, _)
ScanBraces(text, brace_start, i, depth) ==
    IF ~(i < Len(text)) THEN None
    ELSE IF text[i + 1] = "{"
    THEN ScanBraces(text, brace_start, i + 1, depth + 1)
    ELSE IF text[i + 1] = "}"
    THEN IF depth - 1 = 0
         THEN SubSeq(text, brace_start + 1, i + 1)
         ELSE ScanBraces(text, brace_start, i + 1, depth - 1)
    ELSE ScanBraces(text, brace_start, i + 1, depth)

\* _extract_js_object_by_marker(text, marker); Find is text.find(sub, start),
\* the 0-based index of the first occurrence of sub at or after index start,
\* or -1
extract_js_object_by_marker(text, marker) ==
    LET Find(sub, start) ==
            LET at == {i \in start..(Len(text) - Len(sub)) :
                           SubSeq(text, i + 1, i + Len(sub)) = sub}
            IN  IF at = {} THEN -1
                ELSE CHOOSE i \in at : \A j \in at : i <= j
        idx == Find(marker, 0)
        brace_start == Find(<<"{">>, idx)
    IN  IF idx = -1 THEN None
        ELSE IF brace_start = -1 THEN None
        ELSE ScanBraces(text, brace_start, brace_start, 0)

---------------------------------------------------------------------------
(* rsas.py main: filter, align and merge into 中高危漏洞.xlsx *)

\* the header row of a canonical workbook
CanonicalHeader == [i \in 1..Len(TARGET_COLS) |-> ColumnName[TARGET_COLS[i]]]

\* df.to_excel(path, index=False) of a table with the canonical columns
\* (save_excels, write_and_format_excel)
to_excel(df) ==
    [exists |-> TRUE,
     columns |-> CanonicalHeader,
     rows |-> [k \in 1..Len(df) |->
                  [i \in 1..Len(TARGET_COLS) |-> df[k][TARGET_COLS[i]]]]]

\* the position of the column named name in a header, 0 when there is none
ColumnIndex(columns, name) ==
    IF \E i \in 1..Len(columns) : columns[i] = name
    THEN CHOOSE i \in 1..Len(columns) : columns[i] = name
    ELSE 0

\* re.search(r'[中高]', str(val).strip()), False for a blank cell
is_zhong_or_gao(val) ==
    \E i \in 1..Len(Strip(val)) : Strip(val)[i] \in {"U4E2D", "U9AD8"}

\* the source column align_df_to_target takes for a target, as a position in
\* the header (0 for none): the column found by the resolver, else the
\* column of the target's own name
SourceColumn(tgt, columns) ==
    CHOOSE i \in 0..Len(columns) :
        \E found \in {find_best_col_for_target(COLUMN_CANDIDATES[tgt], columns)} :
            i = IF found # None /\ found # <<>> /\ ColumnIndex(columns, found) # 0
                THEN ColumnIndex(columns, found)
                ELSE ColumnIndex(columns, ColumnName[tgt])

\* the header nessus.py writes: the canonical columns and 扫描返回信息
ScanResultsHeader ==
    CanonicalHeader \o <<<<"U626B", "U63CF", "U8FD4", "U56DE", "U4FE1", "U606F">>>>

\* headers of source tables that resolve in part or not at all:
\* [foo], [IP地址, 端口], [CVE编号, foo], [id, ID], [漏洞, 名称], [漏洞],
\* [漏洞CVE, 漏洞]
PartialHeaders ==
    {<<Chars("foo")>>,
     <<Chars("IP") \o <<"U5730", "U5740">>, <<"U7AEF", "U53E3">>>>,
     <<Chars("CVE") \o <<"U7F16", "U53F7">>, Chars("foo")>>,
     <<Chars("id"), Chars("ID")>>,
     <<<<"U6F0F", "U6D1E">>, <<"U540D", "U79F0">>>>,
     <<<<"U6F0F", "U6D1E">>>>,
     <<<<"U6F0F", "U6D1E">> \o Chars("CVE"), <<"U6F0F", "U6D1E">>>>}

\* the headers of the tables aligned in the model
Headers == {CanonicalHeader, ScanResultsHeader} \cup PartialHeaders

\* the source columns of every target under every header, resolved once
SourceColumns ==
    [columns \in Headers |->
        [tgt \in {TARGET_COLS[i] : i \in 1..Len(TARGET_COLS)} |->
            SourceColumn(tgt, columns)]]

\* an alignment that leaves 序号 blank
AlignedRowsWithoutSeq(rows, src) ==
    [k \in 1..Len(rows) |->
        [tgt \in DOMAIN src |->
            IF src[tgt] = 0 \/ tgt = "seq" THEN <<>> ELSE rows[k][src[tgt]]]]

\* the aligned frame: a target without a source column is blank; the frame
\* has the rows of the source when at least one target has a source column
\* and no row otherwise
AlignedRows(rows, src) ==
    IF \A tgt \in DOMAIN src : src[tgt] = 0
    THEN <<>>
    ELSE [k \in 1..Len(rows) |->
             [tgt \in DOMAIN src |->
                 IF src[tgt] = 0 THEN <<>> ELSE rows[k][src[tgt]]]]

\* align_df_to_target(df_src, TARGET_COLS, list(df_src.columns))
align_df_to_target(df_src) == AlignedRows(df_src.rows, SourceColumns[df_src.columns])

\* pd.read_excel and align_df_to_target of a workbook; the empty frame
\* pd.DataFrame(columns=TARGET_COLS) when the file is absent
read_aligned(file) == IF file.exists THEN align_df_to_target(file) ELSE <<>>

\* drop_all_empty_rows: a row stays when some cell of it is neither NaN nor
\* a text that is empty after strip()
drop_all_empty_rows(df) ==
    SelectSeq(df, LAMBDA row : \E f \in DOMAIN row : Strip(row[f]) # <<>>)

\* row = {c: "" for c in TARGET_COLS}; row["风险等级"] = "暂未发现中高危漏洞"
SentinelRow ==
    [f \in {TARGET_COLS[i] : i \in 1..Len(TARGET_COLS)} |->
        IF f = "risk"
        THEN <<"U6682", "U672A", "U53D1", "U73B0", "U4E2D", "U9AD8", "U5371",
               "U6F0F", "U6D1E">>
        ELSE <<>>]

\* a merge that replaces the persisted rows by the new rows
MergeStageOverwrite(exist_rows, new_rows) ==
    IF Len(exist_rows) = 0 /\ Len(new_rows) = 0
    THEN renumber(<<SentinelRow>>)
    ELSE renumber(new_rows)

\* a merge that writes the marker row as soon as one of the batches is empty
MergeStageEitherEmpty(exist_rows, new_rows) ==
    IF Len(exist_rows) = 0 \/ Len(new_rows) = 0
    THEN renumber(<<SentinelRow>>)
    ELSE renumber(exist_rows \o new_rows)

\* the table main writes: the marker row when both batches are empty, else
\* the existing rows followed by the new rows, renumbered
MergeStage(exist_rows, new_rows) ==
    IF Len(exist_rows) = 0 /\ Len(new_rows) = 0
    THEN renumber(<<SentinelRow>>)
    ELSE renumber(exist_rows \o new_rows)

---------------------------------------------------------------------------
(* Inputs of the merge functions *)

SeqsUpTo(S, n) == UNION {[1..k -> S] : k \in 0..n}

\* canonical records as normalize_record returns them: two spellings of one
\* IP (equal after trimming), with or without a CVE, two descriptions; the
\* second description comes with a stale sequence number
VulnPool ==
    {[seq |-> v[2], IP |-> ip, port |-> Chars("22"), name |-> Chars("OpenSSH"),
      risk |-> <<"U9AD8">>, desc |-> v[1], fix |-> <<>>, CVE |-> cve] :
        ip \in {Chars("10.0.0.1"), Chars(" 10.0.0.1 ")},
        cve \in {<<>>, Chars("CVE-2023-1111")},
        v \in {<<Chars("weak"), <<>>>>, <<Chars("old"), Chars("7")>>}}

\* two batches A, B of together at most MaxBatch records
BatchPairs(max) ==
    UNION {{[A |-> a, B |-> b] : a \in [1..k -> VulnPool],
                                  b \in SeqsUpTo(VulnPool, max - k)} :
           k \in 0..max}

\* rows of a DataFrame before renumber: 序号 empty, stale or already right
RowPool ==
    {[seq |-> q, IP |-> Chars("10.0.0.1"), port |-> Chars("22"),
      name |-> Chars("OpenSSH"), risk |-> <<"U9AD8">>, desc |-> d,
      fix |-> <<>>, CVE |-> <<>>] :
        q \in {<<>>, Chars("1"), Chars("5")}, d \in {Chars("weak"), Chars("old")}}

\* the record of the last run of rsas.py main before any run
NotRun ==
    [ran |-> FALSE, before |-> NoFile, exist |-> <<>>, new |-> <<>>,
     again |-> FALSE, prev_new |-> <<>>]

\* no run of rsas.py main in the specifications of the pure functions
NoRun == report = NoFile /\ zhg = NoFile /\ run = NotRun

InitMerge ==
    /\ pc = "ready"
    /\ res = None
    /\ \/ fn = "merge_vulns" /\ arg \in BatchPairs(MaxBatch)
       \* (ip, port) pairs as the extraction strategies emit them
       \/ /\ fn = "merge_ports"
          /\ arg \in SeqsUpTo({<<ip, port>> :
                                  ip \in {<<>>, <<" ">>, Chars("10.0.0.1"), Chars("10.0.0.1 ")},
                                  port \in {<<>>, Chars("80"), Chars(" 80")}}, MaxPairs)
       \/ fn = "renumber" /\ arg \in SeqsUpTo(RowPool, MaxRows)
    /\ NoRun

\* merge_vulns on the batches in both orders, the second call on the dicts
\* the first call left: merged = merge_vulns(A + B), then merge_vulns(B + A).
\* Each call writes 序号 into the dicts it keeps, which are the dicts of the
\* batches, so after the second call the list the first call returned holds
\* the numbers the second call wrote
CallMergeVulns ==
    /\ fn = "merge_vulns"
    /\ pc \in {"ready", "first"}
    /\ LET n == Len(arg.A)
           m == Len(arg.B)
           \* the dicts of a list that are the first of their key, in order
           FirstOfKey(records) ==
               LET at == SelectSeq([p \in 1..Len(records) |-> p],
                                   LAMBDA p : \A q \in 1..(p - 1) :
                                       VulnKey(records[q]) # VulnKey(records[p]))
               IN  [i \in 1..Len(at) |-> records[at[i]]]
       IN  IF pc = "ready"
           THEN \E left \in {WrittenByMerge(arg.A \o arg.B)} :
                    /\ arg' = [A |-> SubSeq(left, 1, n), B |-> SubSeq(left, n + 1, n + m)]
                    /\ res' = [AB |-> merge_vulns(arg.A \o arg.B)]
                    /\ pc' = "first"
           ELSE \E left \in {WrittenByMerge(arg.B \o arg.A)} :
                    /\ arg' = [A |-> SubSeq(left, m + 1, m + n), B |-> SubSeq(left, 1, m)]
                    /\ res' = [AB |-> FirstOfKey(SubSeq(left, m + 1, m + n)
                                                 \o SubSeq(left, 1, m)),
                               BA |-> merge_vulns(arg.B \o arg.A)]
                    /\ pc' = "done"
    /\ UNCHANGED <<fn, report, zhg, run>>

CallMergePorts ==
    /\ pc = "ready" /\ fn = "merge_ports"
    /\ res' = merge_ports(arg)
    /\ pc' = "done"
    /\ UNCHANGED <<fn, arg, report, zhg, run>>

\* renumber(df): df["序号"] = range(1, len(df) + 1) writes into the frame
\* given before the frame returned is built from it
CallRenumber ==
    /\ pc = "ready" /\ fn = "renumber"
    /\ arg' = renumber(arg)
    /\ res' = renumber(arg)
    /\ pc' = "done"
    /\ UNCHANGED <<fn, report, zhg, run>>

NextMerge == CallMergeVulns \/ CallMergePorts \/ CallRenumber

SpecMerge == InitMerge /\ [][NextMerge]_vars

---------------------------------------------------------------------------
(* Claims about merge_vulns, merge_ports and renumber (SpecMerge) *)

\* the identity tuple of the data model: (IP, 端口, 漏洞名称, CVE), trimmed
Identity(r) == <<Strip(r.IP), Strip(r.port), Strip(r.name), Strip(r.CVE)>>

Identities(recs) == {Identity(recs[i]) : i \in 1..Len(recs)}

\* the seven non-sequence fields of a record
Content(r) == <<r.IP, r.port, r.name, r.risk, r.desc, r.fix, r.CVE>>

\* the index of the first record of recs with identity id
FirstWith(recs, id) ==
    CHOOSE i \in 1..Len(recs) :
        /\ Identity(recs[i]) = id
        /\ \A j \in 1..(i - 1) : Identity(recs[j]) # id

MergedVulns == pc = "done" /\ fn = "merge_vulns"

\* C1: the output of merge_vulns holds exactly one record for every distinct
\* trimmed identity (IP, 端口, 漏洞名称, CVE) of the input, and that record
\* has the content of the first input record with that identity: the list
\* a call returns is compared with the batches as they were given to it
C1_FirstOfEachIdentity ==
    [][fn = "merge_vulns" /\ pc = "ready" =>
           LET in == arg.A \o arg.B
               out == res'.AB
           IN  /\ Identities(out) = Identities(in)
               /\ \A i, j \in 1..Len(out) :
                      Identity(out[i]) = Identity(out[j]) => i = j
               /\ \A i \in 1..Len(out) :
                      Content(out[i]) = Content(in[FirstWith(in, Identity(out[i]))])]_vars

\* C1 witness: a later record with the same trimmed identity (spelled with
\* surrounding whitespace) and another description was dropped
C1_Witness ==
    /\ MergedVulns
    /\ Len(res.AB) = 1
    /\ Len(arg.A) = 1 /\ Len(arg.B) = 1
    /\ arg.A[1].IP # arg.B[1].IP
    /\ arg.A[1].desc # arg.B[1].desc
    /\ res.AB[1].desc = arg.A[1].desc

\* the decimal numeral of a number below 100
Decimal(n) ==
    LET digit(d) == SubSeq("0123456789", d + 1, d + 1)
    IN  IF n < 10 THEN <<digit(n)>> ELSE <<digit(n \div 10), digit(n % 10)>>

\* C5: the sequence values in the output of merge_vulns, merge_ports and
\* renumber are 1, 2, ..., N in output order, whatever the input carried:
\* every call returns its list numbered so (for merge_vulns the call on A
\* followed by B and the call on B followed by A)
C5_SequenceIsOneToN ==
    /\ fn = "merge_vulns" /\ pc = "first" =>
           \A i \in 1..Len(res.AB) : res.AB[i].seq = Decimal(i)
    /\ fn = "merge_vulns" /\ pc = "done" =>
           \A i \in 1..Len(res.BA) : res.BA[i].seq = Decimal(i)
    /\ fn \in {"merge_ports", "renumber"} /\ pc = "done" =>
           \A i \in 1..Len(res) : res[i].seq = Decimal(i)

\* C5 witness: two records survive a merge that dropped a duplicate, and the
\* second survivor is a record with the description old, which comes in
\* with the stale sequence value 7 (VulnPool) and is returned with 2
C5_Witness ==
    /\ fn = "merge_vulns" /\ pc = "first"
    /\ Len(res.AB) = 2
    /\ Len(arg.A \o arg.B) = 3
    /\ res.AB[2].desc = Chars("old")
    /\ res.AB[2].seq = Chars("2")
    /\ \E i \in 1..3 : (arg.A \o arg.B)[i] = res.AB[2]

\* C6: merge_vulns of A followed by B and of B followed by A keep the same
\* set of identities; the content kept for an identity may differ only when
\* the identity occurs in both batches
C6_CommutativeInIdentity ==
    MergedVulns =>
        /\ Identities(res.AB) = Identities(res.BA)
        /\ \A i \in 1..Len(res.AB) : \A j \in 1..Len(res.BA) :
               (/\ Identity(res.AB[i]) = Identity(res.BA[j])
                /\ Identity(res.AB[i]) \notin Identities(arg.A) \cap Identities(arg.B))
               => Content(res.AB[i]) = Content(res.BA[j])

\* C6 witness: both batches hold the same identity with different content,
\* and each order keeps its first batch's content
C6_Witness ==
    /\ MergedVulns
    /\ Len(arg.A) >= 1 /\ Len(arg.B) >= 1
    /\ Identities(arg.A) \cap Identities(arg.B) # {}
    /\ Identities(arg.A) # Identities(arg.B)
    /\ \E i \in 1..Len(res.AB) : \E j \in 1..Len(res.BA) :
           /\ Identity(res.AB[i]) = Identity(res.BA[j])
           /\ Content(res.AB[i]) # Content(res.BA[j])

\* C20: every record merge_ports returns has a non-empty IP and a non-empty
\* port as stored, whatever the pairs are (a pair with an empty or a
\* whitespace-only component is not admitted), and no two records have the
\* same (ip, port)
C20_PortsNonEmptyAndDistinct ==
    fn = "merge_ports" /\ pc = "done" =>
        /\ \A i \in 1..Len(res) : res[i].IP # <<>> /\ res[i].port # <<>>
        /\ \A i, j \in 1..Len(res) :
               i # j => <<res[i].IP, res[i].port>> # <<res[j].IP, res[j].port>>

---------------------------------------------------------------------------
(* The column resolver on bounded inputs (SpecCol) *)

\* observed column names: 序列号, numbr, ID, vuln_id, id, CVE_ref, Cve ID,
\* prot, ip
ColumnPool ==
    {<<"U5E8F", "U5217", "U53F7">>,
     Chars("numbr"),
     Chars("ID"),
     Chars("vuln_id"),
     Chars("id"),
     Chars("CVE_ref"),
     Chars("Cve ID"),
     Chars("prot"),
     Chars("ip")}

\* the header of the specification's example: 漏洞CVE编号, IP地址, 端口
ExampleColumns ==
    <<<<"U6F0F", "U6D1E">> \o Chars("CVE") \o <<"U7F16", "U53F7">>,
      Chars("IP") \o <<"U5730", "U5740">>,
      <<"U7AEF", "U53E3">>>>

InitCol ==
    /\ pc = "ready"
    /\ res = None
    /\ fn = "find_best_col_for_target"
    /\ arg \in [target : {TARGET_COLS[i] : i \in 1..Len(TARGET_COLS)},
                columns : SeqsUpTo(ColumnPool, MaxCols) \cup {ExampleColumns}]
    /\ NoRun

\* find_best_col_for_target(COLUMN_CANDIDATES[tgt], columns)
CallFindBestCol ==
    /\ pc = "ready" /\ fn = "find_best_col_for_target"
    /\ res' = find_best_col_for_target(COLUMN_CANDIDATES[arg.target], arg.columns)
    /\ pc' = "done"
    /\ UNCHANGED <<fn, arg, report, zhg, run>>

NextCol == CallFindBestCol

SpecCol == InitCol /\ [][NextCol]_vars

---------------------------------------------------------------------------
(* Claims about the column resolver (SpecCol) *)

Resolved == pc = "done" /\ fn = "find_best_col_for_target"

\* the normalized aliases of every target and the normalized names of the
\* observed columns of the inputs, computed once
NormalizedAliases ==
    [t \in DOMAIN COLUMN_CANDIDATES |->
        [k \in 1..Len(COLUMN_CANDIDATES[t]) |-> normalize(COLUMN_CANDIDATES[t][k])]]
NormalizedColumn ==
    [c \in ColumnPool \cup {ExampleColumns[i] : i \in 1..Len(ExampleColumns)} |->
        normalize(c)]

\* the similarity ratio of every normalized alias and normalized column
RatioOf ==
    [t \in DOMAIN NormalizedAliases |->
        [k \in 1..Len(NormalizedAliases[t]) |->
            [c \in DOMAIN NormalizedColumn |->
                Ratio(NormalizedColumn[c], NormalizedAliases[t][k])]]]

\* the normalized aliases of the target and the normalized observed columns
AliasNorms == NormalizedAliases[arg.target]
ColumnNorms == [i \in 1..Len(arg.columns) |-> NormalizedColumn[arg.columns[i]]]

\* the similarity ratio of alias k and column i
PairRatio(k, i) == RatioOf[arg.target][k][arg.columns[i]]

\* alias k equals / lies inside / contains / is close to column i
IsExact(k, i) == AliasNorms[k] = ColumnNorms[i]
IsInside(k, i) == AliasNorms[k] # <<>> /\ Contains(ColumnNorms[i], AliasNorms[k])
IsAround(k, i) == ColumnNorms[i] # <<>> /\ Contains(AliasNorms[k], ColumnNorms[i])
IsClose(k, i) == FracGeq(PairRatio(k, i), <<CutoffNum, CutoffDen>>)

Pairs == (1..Len(AliasNorms)) \X (1..Len(ColumnNorms))
SomeExact == \E p \in Pairs : IsExact(p[1], p[2])
SomeInside == \E p \in Pairs : IsInside(p[1], p[2])
SomeAround == \E p \in Pairs : IsAround(p[1], p[2])
SomeClose == \E p \in Pairs : IsClose(p[1], p[2])

\* the result is an observed column that some alias matches in the given way
ResultIs(Match(_, _)) ==
    \E p \in Pairs : arg.columns[p[2]] = res /\ Match(p[1], p[2])

\* C9: the stages apply in strict priority over the whole alias list: an
\* exact match of any alias wins over substring and fuzzy matches of earlier
\* aliases, substring matches count only without an exact match, fuzzy
\* matches only without a substring match, and without any match the result
\* is none; the result is an observed column or none
C9_StagePriority ==
    Resolved =>
        /\ res = None \/ \E i \in 1..Len(arg.columns) : arg.columns[i] = res
        /\ SomeExact => ResultIs(IsExact)
        /\ ~SomeExact /\ SomeInside => ResultIs(IsInside)
        /\ ~SomeExact /\ ~SomeInside /\ SomeClose => ResultIs(IsClose)
        /\ ~SomeExact /\ ~SomeInside /\ ~SomeClose => res = None
        /\ arg.target = "CVE" /\ arg.columns = ExampleColumns => res = ExampleColumns[1]
        /\ arg.target = "CVE" /\ arg.columns = <<Chars("vuln_id")>> => res = None

\* C9 witness: an earlier alias lies inside one column without equalling any,
\* a later alias equals another column, and the later alias's column is
\* returned
C9_Witness ==
    /\ Resolved
    /\ \E k1, k2 \in 1..Len(AliasNorms) : \E i1, i2 \in 1..Len(ColumnNorms) :
           /\ k1 < k2 /\ i1 < i2
           /\ IsInside(k1, i1)
           /\ \A i \in 1..Len(ColumnNorms) : ~IsExact(k1, i)
           /\ IsExact(k2, i2)
           /\ res = arg.columns[i2]
           /\ res # arg.columns[i1]

\* C10 as stated: without an exact match, a column whose normalized name
\* lies inside a normalized alias is a substring match too, so a column
\* matched in either direction is returned
C10_BothDirections ==
    Resolved /\ ~SomeExact /\ (SomeInside \/ SomeAround) =>
        \E p \in Pairs :
            /\ arg.columns[p[2]] = res
            /\ IsInside(p[1], p[2]) \/ IsAround(p[1], p[2])

\* C10 amended: the substring stage matches in one direction only.  Without
\* an exact match, a column is returned by the substring stage exactly when
\* a non-empty normalized alias lies inside its normalized name; when no
\* alias lies inside any column the result is left to the fuzzy stage (a
\* column of ratio >= 0.6 or none), even if an alias contains a column name
C10_AliasInsideColumnOnly ==
    Resolved /\ ~SomeExact =>
        /\ SomeInside => ResultIs(IsInside)
        /\ ~SomeInside => res = None \/ ResultIs(IsClose)
        /\ ~SomeInside /\ ~SomeClose => res = None

\* C10 witness: an alias (cve id) contains the only column name (id), no
\* alias lies inside it, and the resolver returns none
C10_Witness ==
    /\ Resolved
    /\ ~SomeExact /\ ~SomeInside /\ SomeAround
    /\ res = None

FuzzyReached == Resolved /\ ~SomeExact /\ ~SomeInside

\* alias k is the first alias that is close to some column
FirstCloseAlias(k) ==
    /\ \E i \in 1..Len(ColumnNorms) : IsClose(k, i)
    /\ \A m \in 1..(k - 1) : \A i \in 1..Len(ColumnNorms) : ~IsClose(m, i)

\* C11 as stated: in the fuzzy stage the column of the pair of the highest
\* ratio over all (alias, column) pairs is returned when that ratio is at
\* least 0.6, and none when no pair reaches 0.6
C11_GlobalBestPair ==
    FuzzyReached =>
        /\ ~SomeClose => res = None
        /\ SomeClose =>
               \E p \in Pairs :
                   /\ arg.columns[p[2]] = res
                   /\ IsClose(p[1], p[2])
                   /\ \A q \in Pairs :
                          FracGeq(PairRatio(p[1], p[2]), PairRatio(q[1], q[2]))

\* C11 amended: in the fuzzy stage the aliases are tried in list order; the
\* first alias that has a column of ratio at least 0.6 decides, and the
\* column returned is one of the highest ratio for that alias; when no pair
\* reaches 0.6 the result is none
C11_FirstCloseAliasBestColumn ==
    FuzzyReached =>
        /\ ~SomeClose => res = None
        /\ SomeClose =>
               \E k \in 1..Len(AliasNorms) : \E i \in 1..Len(ColumnNorms) :
                   /\ FirstCloseAlias(k)
                   /\ arg.columns[i] = res
                   /\ IsClose(k, i)
                   /\ \A j \in 1..Len(ColumnNorms) :
                          FracGeq(PairRatio(k, i), PairRatio(k, j))

\* C11 witness: the first close alias has ratio 4/5 with its column, a later
\* alias has a higher ratio with another column, and the first alias's
\* column is returned
C11_Witness ==
    /\ FuzzyReached
    /\ \E k \in 1..Len(AliasNorms) : \E i \in 1..Len(ColumnNorms) :
           /\ FirstCloseAlias(k)
           /\ arg.columns[i] = res
           /\ IsClose(k, i)
           /\ \E q \in Pairs :
                  /\ q[1] > k
                  /\ arg.columns[q[2]] # res
                  /\ ~FracGeq(PairRatio(k, i), PairRatio(q[1], q[2]))

\* alias k matches column i in the stage that decides the result
WinningMatch(k, i) ==
    IF SomeExact THEN IsExact(k, i)
    ELSE IF SomeInside THEN IsInside(k, i)
    ELSE IsClose(k, i)

\* C12: when several (alias, column) candidates match in the winning stage,
\* the result is the column of the earliest alias that has a match and, for
\* that alias, the earliest matching column in the order of the observed
\* columns, also when two observed columns normalize to the same name
C12_EarliestAliasEarliestColumn ==
    Resolved /\ (SomeExact \/ SomeInside \/ SomeClose) =>
        \E k \in 1..Len(AliasNorms) : \E i \in 1..Len(ColumnNorms) :
            /\ WinningMatch(k, i)
            /\ \A m \in 1..(k - 1) : \A j \in 1..Len(ColumnNorms) : ~WinningMatch(m, j)
            /\ \A j \in 1..(i - 1) : ~WinningMatch(k, j)
            /\ res = arg.columns[i]

---------------------------------------------------------------------------
(* Whole-table alignment on bounded inputs (SpecAlign) *)

\* a source table: a header and at most MaxAlign rows of its width, with the
\* cells '', a and b
InitAlign ==
    /\ pc = "ready"
    /\ res = None
    /\ fn = "align_df_to_target"
    /\ \/ \E columns \in PartialHeaders :
              \E rows \in SeqsUpTo([1..Len(columns) -> {<<>>, Chars("a"), Chars("b")}], MaxAlign) :
                  arg = [columns |-> columns, rows |-> rows]
       \/ \E rows \in SeqsUpTo({[i \in 1..Len(CanonicalHeader) |-> IntCell(i)],
                                [i \in 1..Len(CanonicalHeader) |->
                                    IF i \in {1, 5} THEN Chars("a") ELSE <<>>],
                                [i \in 1..Len(CanonicalHeader) |->
                                    IF i > 4 THEN Chars("b") ELSE CanonicalHeader[i]]},
                               MaxAlign) :
              arg = [columns |-> CanonicalHeader, rows |-> rows]
    /\ NoRun

CallAlign ==
    /\ pc = "ready"
    /\ res' = align_df_to_target(arg)
    /\ pc' = "done"
    /\ UNCHANGED <<fn, arg, report, zhg, run>>

NextAlign == CallAlign

SpecAlign == InitAlign /\ [][NextAlign]_vars

\* the table was aligned
Aligned == fn = "align_df_to_target" /\ pc = "done"

\* the targets as a set
Targets == {TARGET_COLS[i] : i \in 1..Len(TARGET_COLS)}

\* C13: alignment gives a table of the eight canonical columns with as many
\* rows as the source; every field takes the cells of the column resolved
\* for it alone, and a field without a source column is empty in every row
C13_AlignKeepsRowsAndBlanksMisses ==
    Aligned =>
        /\ Len(res) = Len(arg.rows)
        /\ \A k \in 1..Len(res) :
               /\ DOMAIN res[k] = Targets
               /\ \A tgt \in Targets :
                      res[k][tgt] = IF SourceColumns[arg.columns][tgt] = 0
                                    THEN <<>>
                                    ELSE arg.rows[k][SourceColumns[arg.columns][tgt]]

\* C26: a table whose columns are exactly the eight canonical columns is
\* aligned to itself: every field takes the column of its own name, and
\* every row keeps every field
C26_CanonicalTableUnchanged ==
    Aligned /\ arg.columns = CanonicalHeader =>
        /\ \A i \in 1..Len(TARGET_COLS) :
               SourceColumns[arg.columns][TARGET_COLS[i]] = i
        /\ Len(res) = Len(arg.rows)
        /\ \A k \in 1..Len(res) : \A i \in 1..Len(TARGET_COLS) :
               res[k][TARGET_COLS[i]] = arg.rows[k][i]

\* C26 witness: a canonical table of two rows with distinct cells in every
\* column was aligned
C26_Witness ==
    /\ Aligned /\ arg.columns = CanonicalHeader
    /\ Len(arg.rows) = 2
    /\ \A i, j \in 1..Len(CanonicalHeader) : i # j => arg.rows[1][i] # arg.rows[1][j]
    /\ res[1].CVE = IntCell(8) /\ res[1].seq = IntCell(1)

\* under every header, the targets for which some column has, normalized,
\* the text of a normalized alias of the target
ExactlyNamedUnder ==
    [columns \in Headers |->
        {tgt \in Targets :
             \E a \in 1..Len(NormalizedAliases[tgt]) : \E c \in 1..Len(columns) :
                 normalize(columns[c]) = NormalizedAliases[tgt][a]}]

ExactlyNamed(tgt) == tgt \in ExactlyNamedUnder[arg.columns]

\* C27 as stated: no two canonical fields take the same source column
C27_Injective ==
    Aligned =>
        \A t1, t2 \in Targets :
            /\ t1 # t2
            /\ SourceColumns[arg.columns][t1] # 0
            /\ SourceColumns[arg.columns][t2] # 0
            => SourceColumns[arg.columns][t1] # SourceColumns[arg.columns][t2]

\* C27 amended: no two canonical fields that both have a column named
\* exactly by one of their aliases take the same source column (a field
\* resolved by substring or by similarity may take the column of another
\* field, every field being resolved on its own)
C27_InjectiveOnExactNames ==
    Aligned =>
        \A t1, t2 \in Targets :
            /\ t1 # t2
            /\ ExactlyNamed(t1)
            /\ ExactlyNamed(t2)
            => /\ SourceColumns[arg.columns][t1] # 0
               /\ SourceColumns[arg.columns][t2] # 0
               /\ SourceColumns[arg.columns][t1] # SourceColumns[arg.columns][t2]

\* C27 witness: under the header [漏洞CVE, 漏洞] the name and the CVE number
\* are both named exactly, the alias 漏洞 of the name is inside the CVE
\* column as well, and the two fields took different columns of a row
C27_Witness ==
    /\ Aligned
    /\ arg.columns = <<<<"U6F0F", "U6D1E">> \o Chars("CVE"), <<"U6F0F", "U6D1E">>>>
    /\ ExactlyNamed("name") /\ ExactlyNamed("CVE")
    /\ Len(arg.rows) = 1
    /\ arg.rows[1] = <<Chars("a"), Chars("b")>>
    /\ res[1].CVE = Chars("a") /\ res[1].name = Chars("b")

---------------------------------------------------------------------------
(* The extraction cascade on bounded documents (SpecParse) *)

\* entries of the embedded data: a flat entry, a vulnerability listed under
\* the vuls of a host entry (sub), a value that is not a dict (other) and an
\* entry whose vul_msg is not a dict, so that its lookups raise (broken)
EntryPool ==
    [flat |-> [kind |-> "flat", ip |-> Chars(" 10.0.0.1"), port |-> Chars("443"),
               name |-> Chars("Weak TLS"), level |-> Chars("High"), desc |-> <<>>,
               sol |-> None, cve |-> Chars("cve_2023_4567")],
     sub |-> [kind |-> "sub", ip |-> Chars("10.0.0.1"), port |-> <<>>,
              name |-> Chars("['SSH']"), level |-> Chars("3"), desc |-> Chars("old"),
              sol |-> Chars("upgrade"), cve |-> <<>>],
     other |-> [kind |-> "other"],
     broken |-> [kind |-> "broken"]]

\* the rows a table or the text blocks give: the vr dicts and the pairs
\* extract_from_table and extract_from_blocks return, or an exception
PartPool ==
    [error |-> [kind |-> "error"],
     none |-> [kind |-> "ok", vulns |-> <<>>, ports |-> <<>>],
     vuln |-> [kind |-> "ok",
               vulns |-> <<[IP |-> Chars("10.0.0.2"), port |-> Chars("80"),
                            name |-> Chars("XSS"), risk |-> <<"U4E2D", "U5371">>,
                            desc |-> <<>>, fix |-> <<>>, CVE |-> Chars("CVE-2021-0001")]>>,
               ports |-> <<>>],
     port |-> [kind |-> "ok", vulns |-> <<>>,
               ports |-> <<<<Chars("10.0.0.2"), Chars("80")>>>>],
     \* what extract_from_blocks gives for <p>10.0.0.3 port 22 low SSH service
     \* open</p>: the whole text is the name and the description
     block |-> [kind |-> "ok",
                vulns |-> <<[IP |-> Chars("10.0.0.3"), port |-> Chars("22"),
                             name |-> Chars("10.0.0.3 port 22 low SSH service open"),
                             risk |-> Chars("low"),
                             desc |-> Chars("10.0.0.3 port 22 low SSH service open"),
                             fix |-> <<>>, CVE |-> <<>>]>>,
                ports |-> <<<<Chars("10.0.0.3"), Chars("22")>>>>]]

\* documents: the object after window.data (absent, malformed or parsed by
\* json.loads to some entries), the script blocks (plain ones name no
\* vulnerability key), at most max tables and the text blocks
DocPool(max) ==
    {[embedded |-> e, scripts |-> sc, tables |-> ts, blocks |-> b] :
        e \in {[kind |-> "absent"], [kind |-> "malformed"]}
               \cup {[kind |-> "parsed", entries |-> es] :
                        es \in {<<>>, <<EntryPool.other>>, <<EntryPool.flat>>,
                                <<EntryPool.sub, EntryPool.flat>>,
                                <<EntryPool.flat, EntryPool.broken>>}},
        sc \in {<<>>, <<[kind |-> "plain"]>>,
                <<[kind |-> "malformed"], [kind |-> "parsed", entries |-> <<>>]>>,
                <<[kind |-> "parsed", entries |-> <<EntryPool.flat>>]>>},
        ts \in SeqsUpTo({PartPool.error, PartPool.vuln, PartPool.port}, max),
        b \in {PartPool.error, PartPool.none, PartPool.block}}

InitParse ==
    /\ pc = "ready"
    /\ res = None
    /\ fn = "parse_html_file"
    /\ arg \in DocPool(MaxTables)
    /\ NoRun

CallParse ==
    /\ pc = "ready"
    /\ res' = parse_html_file(arg)
    /\ pc' = "done"
    /\ UNCHANGED <<fn, arg, report, zhg, run>>

NextParse == CallParse

SpecParse == InitParse /\ [][NextParse]_vars

\* the document was parsed
Parsed == fn = "parse_html_file" /\ pc = "done"

\* the embedded object or some script block of the document was parsed
HasEmbeddedData ==
    \/ arg.embedded.kind = "parsed"
    \/ \E i \in 1..Len(arg.scripts) : arg.scripts[i].kind = "parsed"

\* the entries Strategy A reads: those of the embedded object, else those of
\* the first script block that parses
EntriesOfA ==
    IF arg.embedded.kind = "parsed" THEN arg.embedded.entries
    ELSE LET i == CHOOSE i \in 1..Len(arg.scripts) :
                      /\ arg.scripts[i].kind = "parsed"
                      /\ \A j \in 1..(i - 1) : arg.scripts[j].kind # "parsed"
         IN  arg.scripts[i].entries

\* Strategy A yields no item: no data, or no dict among the entries
AYieldsNothing ==
    ~HasEmbeddedData \/ \A i \in 1..Len(EntriesOfA) : EntriesOfA[i].kind = "other"

\* the tables and the text blocks whose extraction does not raise, in order
PartsKept == SelectSeq(arg.tables \o <<arg.blocks>>, LAMBDA t : t.kind # "error")

\* the result holds record for record and pair for pair what the parts give
IsUnionOf(parts) ==
    /\ ~res.raised
    /\ Len(res.vulns) = Len(Flatten([i \in 1..Len(parts) |-> parts[i].vulns]))
    /\ \A k \in 1..Len(res.vulns) :
           res.vulns[k] =
               normalize_record(AsDict(Flatten([i \in 1..Len(parts) |-> parts[i].vulns])[k]))
    /\ res.ports = Flatten([i \in 1..Len(parts) |-> parts[i].ports])

\* C14 as stated: whenever Strategy A yields no item, also when embedded
\* data was parsed and holds no item, table extraction and block extraction
\* run on the document and the result is what they give
C14_FallThroughWheneverNoItem ==
    Parsed /\ AYieldsNothing => IsUnionOf(PartsKept)

\* C14 amended: Strategy A short-circuits B and C whenever embedded data was
\* parsed, also when it holds no item (the result is then empty); the
\* tables and the blocks are read exactly when no embedded data was parsed
C14_FallThroughOnlyWithoutData ==
    Parsed =>
        /\ ~HasEmbeddedData => IsUnionOf(PartsKept)
        /\ HasEmbeddedData /\ AYieldsNothing => IsUnionOf(<<>>)

\* C14 witness: embedded data without an item was parsed, a table holds a
\* finding, and the result is empty
C14_Witness ==
    /\ Parsed
    /\ HasEmbeddedData /\ AYieldsNothing
    /\ \E i \in 1..Len(arg.tables) : arg.tables[i].kind = "ok" /\ arg.tables[i].vulns # <<>>
    /\ res = [raised |-> FALSE, vulns |-> <<>>, ports |-> <<>>]

\* C15: when the embedded object is malformed and no script block parses,
\* parse_html_file raises nothing and returns the records and pairs of every
\* table that does not raise and of the text blocks unless they raise
C15_MalformedDataIsNotFatal ==
    Parsed /\ arg.embedded.kind = "malformed" /\ ~HasEmbeddedData =>
        IsUnionOf(PartsKept)

\* C15 witness: the embedded object is malformed, the first table raises, and
\* the result holds the finding of the second table and that of the blocks
C15_Witness ==
    /\ Parsed
    /\ arg.embedded.kind = "malformed" /\ ~HasEmbeddedData
    /\ Len(arg.tables) = 2
    /\ arg.tables[1].kind = "error" /\ arg.tables[2] = PartPool.vuln
    /\ arg.blocks = PartPool.block
    /\ Len(res.vulns) = 2 /\ res.ports = PartPool.block.ports

---------------------------------------------------------------------------
(* process_folder: the loop over the documents of a batch (SpecFolder) *)

\* the HTML reports of a folder: one with an embedded finding, one whose
\* embedded data makes Strategy A raise, one with a table and text blocks,
\* one without anything
FolderDocs ==
    {[embedded |-> [kind |-> "parsed", entries |-> <<EntryPool.flat>>],
      scripts |-> <<>>, tables |-> <<>>, blocks |-> PartPool.none],
     [embedded |-> [kind |-> "parsed", entries |-> <<EntryPool.flat, EntryPool.broken>>],
      scripts |-> <<>>, tables |-> <<PartPool.vuln>>, blocks |-> PartPool.block],
     [embedded |-> [kind |-> "malformed"],
      scripts |-> <<>>, tables |-> <<PartPool.error, PartPool.vuln>>, blocks |-> PartPool.block],
     [embedded |-> [kind |-> "absent"],
      scripts |-> <<>>, tables |-> <<>>, blocks |-> PartPool.none]}

\* process_folder is entered: arg holds the documents of the folder,
\* force_regenerate is the flag of main, base_report and base_ports are the
\* files 漏洞报告.xlsx and 开放端口.xlsx of the input folder (left by an earlier
\* run, one finding and one pair, or absent); nothing is written yet to the
\* output folder (report and ports_file)
InitFolder ==
    /\ pc = "start"
    /\ fn = "process_folder"
    /\ arg \in SeqsUpTo(FolderDocs, MaxDocs)
    /\ \E force_regenerate \in BOOLEAN :
       \E base_report \in
              {NoFile,
               [exists |-> TRUE, columns |-> CanonicalHeader,
                rows |-> <<<<Chars("1"), Chars("10.0.0.9"), Chars("22"),
                             Chars("OpenSSH"), <<"U9AD8">>, Chars("weak"),
                             <<>>, <<>>>>>>]} :
       \E base_ports \in
              {NoFile,
               [exists |-> TRUE,
                columns |-> <<ColumnName.seq, ColumnName.IP, ColumnName.port>>,
                rows |-> <<<<Chars("1"), Chars("10.0.0.9"), Chars("22")>>>>]} :
           res = [hp |-> 1, all_vulns |-> <<>>, all_ports_pairs |-> <<>>,
                  merged_ports |-> <<>>, force_regenerate |-> force_regenerate,
                  base_report |-> base_report, base_ports |-> base_ports,
                  ports_file |-> NoFile]
    /\ NoRun

\* process_folder up to its loop: without force_regenerate,
\* use_existing_outputs_if_present copies each of the two files the input
\* folder holds to the output folder (a copy that raises is logged and
\* skipped), and when a file was copied process_folder returns without
\* parsing a document; else the documents are collected and the loop begins
UseExistingOutputs ==
    /\ pc = "start"
    /\ fn = "process_folder"
    /\ \E copied \in SUBSET {f \in {"report", "ports"} :
                                \/ f = "report" /\ res.base_report.exists
                                \/ f = "ports" /\ res.base_ports.exists} :
           IF ~res.force_regenerate /\ copied # {}
           THEN /\ report' = IF "report" \in copied THEN res.base_report ELSE report
                /\ res' = [res EXCEPT !.ports_file = IF "ports" \in copied
                                                     THEN res.base_ports ELSE @]
                /\ pc' = "reused"
           ELSE /\ pc' = "loop"
                /\ UNCHANGED <<res, report>>
    /\ UNCHANGED <<fn, arg, zhg, run>>

\* a loop body that gives up what was collected when a document raises
ExtendOrDrop(acc, parsed) ==
    IF parsed.raised
    THEN [acc EXCEPT !.all_vulns = <<>>, !.all_ports_pairs = <<>>]
    ELSE [acc EXCEPT !.all_vulns = @ \o parsed.vulns,
                     !.all_ports_pairs = @ \o parsed.ports]

\* the body of the try of the loop: the records and pairs of the document
\* are appended; when parse_html_file raises the except clause only logs
Extend(acc, parsed) ==
    IF parsed.raised
    THEN acc
    ELSE [acc EXCEPT !.all_vulns = @ \o parsed.vulns,
                     !.all_ports_pairs = @ \o parsed.ports]

\* one turn of the loop for hp in html_files
ParseDocument ==
    /\ pc = "loop"
    /\ res.hp <= Len(arg)
    /\ res' = [Extend(res, parse_html_file(arg[res.hp])) EXCEPT !.hp = res.hp + 1]
    /\ UNCHANGED <<fn, arg, pc, report, zhg, run>>

\* after the loop: merge_vulns, which writes 序号 into the records of
\* all_vulns it keeps, merge_ports and save_excels
MergeAndSave ==
    /\ pc = "loop"
    /\ res.hp > Len(arg)
    /\ \E ports \in {merge_ports(res.all_ports_pairs)} :
           res' = [res EXCEPT !.all_vulns = WrittenByMerge(res.all_vulns),
                              !.merged_ports = ports,
                              !.ports_file =
                                  [exists |-> TRUE,
                                   columns |-> <<ColumnName.seq, ColumnName.IP,
                                                 ColumnName.port>>,
                                   rows |-> [k \in 1..Len(ports) |->
                                                <<ports[k].seq, ports[k].IP,
                                                  ports[k].port>>]]]
    /\ report' = to_excel(merge_vulns(res.all_vulns))
    /\ pc' = "saved"
    /\ UNCHANGED <<fn, arg, zhg, run>>

NextFolder == UseExistingOutputs \/ ParseDocument \/ MergeAndSave

SpecFolder == InitFolder /\ [][NextFolder]_vars

\* a is a prefix of b
IsPrefix(a, b) == Len(a) <= Len(b) /\ SubSeq(b, 1, Len(a)) = a

\* the documents before position n that parse_html_file takes without raising
RECURSIVE TakenBefore(_)
TakenBefore(n) ==
    IF n <= 1 THEN <<>>
    ELSE TakenBefore(n - 1)
         \o (IF \/ arg[n - 1].embedded.kind # "parsed"
                \/ \A i \in 1..Len(arg[n - 1].embedded.entries) :
                       arg[n - 1].embedded.entries[i].kind # "broken"
             THEN <<n - 1>>
             ELSE <<>>)

\* the accumulators hold exactly the records and pairs of the documents in
\* docs, in their order
HoldsRecordsOf(docs) ==
    /\ res.all_vulns = Flatten([i \in 1..Len(docs) |-> parse_html_file(arg[docs[i]]).vulns])
    /\ res.all_ports_pairs = Flatten([i \in 1..Len(docs) |-> parse_html_file(arg[docs[i]]).ports])

---------------------------------------------------------------------------
(* Strategy B: the loop of extract_from_table over the rows (SpecTable) *)

\* header rows: IP 端口 / IP 端口 漏洞名称 / 主机 风险等级 / IP / IP 主机 Port
HeaderPool ==
    {<<Chars("IP"), <<"U7AEF", "U53E3">>>>,
     <<Chars("IP"), <<"U7AEF", "U53E3">>, <<"U6F0F", "U6D1E", "U540D", "U79F0">>>>,
     <<<<"U4E3B", "U673A">>, <<"U98CE", "U9669", "U7B49", "U7EA7">>>>,
     <<Chars("IP")>>,
     <<Chars("IP"), <<"U4E3B", "U673A">>, Chars("Port")>>}

\* the cells of data rows
CellRows ==
    {<<Chars("192.168.1.5"), Chars("443")>>,
     <<Chars("192.168.1.5"), Chars("443"), Chars("Weak TLS")>>,
     <<Chars("host 192.168.1.5 up"), Chars("80")>>,
     <<Chars("192.168.1.5"), Chars("443/tcp")>>,
     <<<<>>, Chars("cve_2023_4567 high")>>,
     <<Chars("10.0.0.1"), Chars("n/a"), Chars("123456")>>}

\* a table: its header cells and at most MaxTrs data rows; vuln_rows and
\* port_pairs are empty and the loop is at the first row
InitTable ==
    /\ pc = "loop"
    /\ fn = "extract_from_table"
    /\ \E headers \in HeaderPool : \E rows \in SeqsUpTo(CellRows, MaxTrs) :
           arg = [headers |-> headers, rows |-> rows]
    /\ res = [tr |-> 1, vuln_rows |-> <<>>, port_pairs |-> <<>>]
    /\ NoRun

\* one turn of the loop for tr in data_trs
ExtractRow ==
    /\ pc = "loop"
    /\ fn = "extract_from_table"
    /\ res.tr <= Len(arg.rows)
    /\ \E row \in {TableRow([i \in 1..Len(arg.headers) |-> normalize_key(arg.headers[i])],
                            arg.rows[res.tr])} :
           res' = [tr |-> res.tr + 1,
                   vuln_rows |-> res.vuln_rows \o row.vulns,
                   port_pairs |-> res.port_pairs \o row.ports]
    /\ UNCHANGED <<fn, arg, pc, report, zhg, run>>

NextTable == ExtractRow

SpecTable == InitTable /\ [][NextTable]_vars

\* the key of column i of the row at hand, and the columns whose cell the
\* row dict holds (the last column of every key)
KeyOfColumn(i) ==
    IF i <= Len(arg.headers) THEN normalize_key(arg.headers[i])
    ELSE Chars("col") \o IntCell(i - 1)
ValueColumns ==
    {i \in 1..Len(arg.rows[res.tr]) :
        \A j \in (i + 1)..Len(arg.rows[res.tr]) : KeyOfColumn(j) # KeyOfColumn(i)}

\* the row at hand has a value with an IPv4 address in it, a value of one to
\* five digits and none of the keys name, risk, desc, fix, cve
IsPortRow ==
    /\ \E i \in ValueColumns : IpOf(arg.rows[res.tr][i]) # None
    /\ \E i \in ValueColumns : IsPortText(arg.rows[res.tr][i])
    /\ \A i \in 1..Len(arg.rows[res.tr]) :
           KeyOfColumn(i) \notin {Chars("name"), Chars("risk"), Chars("desc"),
                                  Chars("fix"), Chars("cve")}

\* C17: every data row is classified exclusively: a port row adds exactly
\* one (ip, port) pair taken from its values and no vulnerability record;
\* any other row adds no pair and at most one vulnerability record, which
\* has a name, a description, a CVE or a severity
C17_RowsClassifiedExclusively ==
    [][fn = "extract_from_table" =>
          IF IsPortRow
          THEN /\ res'.vuln_rows = res.vuln_rows
               /\ \E i, j \in ValueColumns :
                      res'.port_pairs =
                          Append(res.port_pairs,
                                 <<IpOf(arg.rows[res.tr][i]), arg.rows[res.tr][j]>>)
          ELSE /\ res'.port_pairs = res.port_pairs
               /\ \/ res'.vuln_rows = res.vuln_rows
                  \/ /\ Len(res'.vuln_rows) = Len(res.vuln_rows) + 1
                     /\ IsPrefix(res.vuln_rows, res'.vuln_rows)
                     /\ \E f \in {"name", "desc", "CVE", "risk"} :
                            res'.vuln_rows[Len(res'.vuln_rows)][f] # <<>>]_vars

\* C17 witness: under the header IP 端口 漏洞名称 the row 192.168.1.5, 443 gave
\* a pair only and the same row with the name Weak TLS a record only
C17_Witness ==
    /\ fn = "extract_from_table"
    /\ Len(arg.headers) = 3
    /\ arg.rows = <<<<Chars("192.168.1.5"), Chars("443")>>,
                    <<Chars("192.168.1.5"), Chars("443"), Chars("Weak TLS")>>>>
    /\ res.tr = 3
    /\ res.port_pairs = <<<<Chars("192.168.1.5"), Chars("443")>>>>
    /\ Len(res.vuln_rows) = 1
    /\ res.vuln_rows[1].name = Chars("Weak TLS")
    /\ res.vuln_rows[1].IP = Chars("192.168.1.5")

---------------------------------------------------------------------------
(* Record normalization on bounded raw records (SpecRecord) *)

\* keys of a raw record: CVE, note (a key no rule knows), risk, IP, 漏洞说明
RawKeys ==
    {Chars("CVE"), Chars("note"), Chars("risk"), Chars("IP"),
     <<"U6F0F", "U6D1E", "U8BF4", "U660E">>}

\* values of a raw record: null, texts with and without a CVE number, a list
RawValues ==
    {[kind |-> "none"],
     [kind |-> "str", val |-> Chars("cve_2023_4567")],
     [kind |-> "str", val |-> Chars("CVE:2023-1234")],
     [kind |-> "str", val |-> Chars("N/A")],
     [kind |-> "str", val |-> Chars("a high risk, cve_2021_0001")],
     [kind |-> "list", val |-> <<Chars("[a]"), None>>]}

\* the raw records: dicts of at most max distinct keys, and a value that is
\* not a dict
RawRecords(max) ==
    {[kind |-> "other"]}
    \cup {[kind |-> "dict", items |-> items] :
             items \in {s \in SeqsUpTo(RawKeys \X RawValues, max) :
                           \A i, j \in 1..Len(s) : i # j => s[i][1] # s[j][1]}}

InitRecord ==
    /\ pc = "ready"
    /\ fn = "normalize_record"
    /\ arg \in RawRecords(MaxKeys)
    /\ res = [rec |-> EmptyRecord, merged |-> <<>>]
    /\ NoRun

CallNormalizeRecord ==
    /\ pc = "ready"
    /\ fn = "normalize_record"
    /\ res' = [res EXCEPT !.rec = normalize_record(arg)]
    /\ pc' = "done"
    /\ UNCHANGED <<fn, arg, report, zhg, run>>

\* the normalized record goes through merge_vulns
MergeNormalized ==
    /\ pc = "done"
    /\ fn = "normalize_record"
    /\ res' = [rec |-> WrittenByMerge(<<res.rec>>)[1], merged |-> merge_vulns(<<res.rec>>)]
    /\ pc' = "merged"
    /\ UNCHANGED <<fn, arg, report, zhg, run>>

NextRecord == CallNormalizeRecord \/ MergeNormalized

SpecRecord == InitRecord /\ [][NextRecord]_vars

\* the raw record was normalized
Normalized == fn = "normalize_record" /\ pc \in {"done", "merged"}

\* t has the form CVE-YYYY-NNNN with four or more digits at the end
IsNormalCve(t) ==
    /\ Len(t) >= 13
    /\ SubSeq(t, 1, 4) = Chars("CVE-")
    /\ \A i \in 5..8 : t[i] \in {"0", "1", "2", "3", "4", "5", "6", "7", "8", "9"}
    /\ t[9] = "-"
    /\ \A i \in 10..Len(t) : t[i] \in {"0", "1", "2", "3", "4", "5", "6", "7", "8", "9"}

\* C18: the CVE field of a normalized record is empty or has the form
\* CVE-YYYY-NNNN: upper case, hyphens only, no underscore, space or colon
C18_CveEmptyOrNormalForm ==
    Normalized => res.rec.CVE = <<>> \/ IsNormalCve(res.rec.CVE)

\* a value is a text: not null, every element one character
IsText(v) == v # None /\ \A i \in 1..Len(v) : Len(v[i]) \in {1, 5}

\* the seven fields besides 序号
SevenFields == {"IP", "port", "name", "risk", "desc", "fix", "CVE"}

\* C19: the record normalize_record returns and every record merge_vulns
\* returns has the seven fields IP, 端口, 漏洞名称, 风险等级, 漏洞说明, 加固建议,
\* CVE, each with a text, whatever the raw record is
C19_SevenTextFields ==
    Normalized =>
        /\ SevenFields \subseteq DOMAIN res.rec
        /\ \A f \in SevenFields : IsText(res.rec[f])
        /\ pc = "merged" =>
               /\ Len(res.merged) = 1
               /\ \A k \in 1..Len(res.merged) :
                      /\ SevenFields \subseteq DOMAIN res.merged[k]
                      /\ \A f \in SevenFields : IsText(res.merged[k][f])

\* C19 witness: a raw record with a null address and no other known key, and
\* a value that is not a dict, went through normalize_record and merge_vulns
C19_Witness ==
    /\ Normalized /\ pc = "merged"
    /\ \/ arg.kind = "other"
       \/ /\ arg.kind = "dict"
          /\ \E i \in 1..Len(arg.items) :
                 arg.items[i][1] = Chars("IP") /\ arg.items[i][2].kind = "none"
    /\ res.merged[1].IP = <<>>
    /\ res.merged[1].name = <<>>

\* item i of the raw record has a value and a key that no rule knows
IsSalvaged(i) ==
    /\ arg.items[i][2].kind # "none"
    /\ Lower(Strip(arg.items[i][1])) \notin UNION {FieldKeys[f] : f \in DOMAIN FieldKeys}
    /\ ~Contains(Lower(Strip(arg.items[i][1])), Chars("cve"))

\* C21: an item with a key that no rule knows leaves IP, port, name and
\* remediation as they are and changes CVE, severity and description only
\* when the field is empty at that moment; the record returned is the one
\* the remaining items make of the record after that item (once merge_vulns
\* has written 序号 into the record, its other fields are the ones compared)
C21_SalvageNeverOverwrites ==
    Normalized /\ arg.kind = "dict" =>
        \A i \in 1..Len(arg.items) :
            IsSalvaged(i) =>
                \A before \in {NormalizeItems(EmptyRecord, SubSeq(arg.items, 1, i - 1))} :
                \A after \in {NormalizeItem(before, arg.items[i][1], arg.items[i][2])} :
                    /\ \A f \in {"seq", "IP", "port", "name", "fix"} :
                           after[f] = before[f]
                    /\ \A f \in {"CVE", "risk", "desc"} :
                           before[f] # <<>> => after[f] = before[f]
                    /\ \A made \in {NormalizeItems(after,
                                         SubSeq(arg.items, i + 1, Len(arg.items)))} :
                           /\ DOMAIN res.rec = DOMAIN made
                           /\ \A f \in DOMAIN made :
                                  pc = "done" \/ f # "seq" => res.rec[f] = made[f]

\* C21 witness: the key CVE set the field to N/A, a later unknown key held a
\* text with a CVE number and a severity, and the record keeps N/A while the
\* severity and the description were filled from the text
C21_Witness ==
    /\ Normalized /\ arg.kind = "dict"
    /\ Len(arg.items) = 2
    /\ arg.items[1] = <<Chars("CVE"), [kind |-> "str", val |-> Chars("N/A")]>>
    /\ IsSalvaged(2)
    /\ CveOf(arg.items[2][2].val) # None
    /\ res.rec.CVE = Chars("N/A")
    /\ res.rec.risk = LabelHigh
    /\ res.rec.desc = arg.items[2][2].val

---------------------------------------------------------------------------
(* Strategy C: the loop of extract_from_blocks over the blocks (SpecBlocks) *)

\* the blocks of a document are drawn from: texts below, at and above the
\* shortest length taken, with and without a CVE number, the word 漏洞, a
\* severity word and an (ip, port) pair, longer than the name and the
\* description prefix, followed by siblings with and without labels
InitBlocks ==
    /\ pc = "loop"
    /\ fn = "extract_from_blocks"
    /\ LET Pad(n) == [i \in 1..n |-> "a"]
           pool == {[text |-> Chars("CVE-2023-1234 high"), sibs |-> <<>>],
                    [text |-> <<"U6F0F", "U6D1E">> \o Pad(17), sibs |-> <<Chars("title")>>],
                    [text |-> Pad(20), sibs |-> <<>>],
                    [text |-> Chars("1.2.3.4 port 80 open"), sibs |-> <<>>],
                    [text |-> Chars("cve_2023_1234 on 1.2.3.4 Port: 80"),
                     sibs |-> <<<<>>, Chars("Title: a hole"), Chars("title 2")>>],
                    [text |-> <<"U6F0F", "U6D1E">> \o Pad(18),
                     sibs |-> <<Chars("description and solution: ['patch']")>>],
                    [text |-> Chars("a medium risk finding"),
                     sibs |-> <<<<"U540D", "U79F0">>, <<"U8BF4", "U660E">>,
                                <<"U4FEE", "U590D", "U5EFA", "U8BAE">>, Chars("title 3")>>],
                    [text |-> Chars("low ") \o Pad(NameMax - 3), sibs |-> <<Chars("other")>>],
                    [text |-> Chars("CVE-2023-1234 High 1.2.3.4 port 80 ") \o Pad(DescMax),
                     sibs |-> <<>>]}
       IN  arg \in SeqsUpTo(pool, MaxBlocks)
    /\ res = [b |-> 1, vulns |-> <<>>, ports |-> <<>>]
    /\ NoRun

\* one turn of the loop for b in blocks
ExtractBlock ==
    /\ pc = "loop"
    /\ fn = "extract_from_blocks"
    /\ res.b <= Len(arg)
    /\ \E block \in {Block(arg[res.b])} :
           res' = [b |-> res.b + 1,
                   vulns |-> res.vulns \o block.vulns,
                   ports |-> res.ports \o block.ports]
    /\ UNCHANGED <<fn, arg, pc, report, zhg, run>>

NextBlocks == ExtractBlock

SpecBlocks == InitBlocks /\ [][NextBlocks]_vars

\* the block text is long enough and holds a CVE number, the word 漏洞 or a
\* severity word
IsCandidate(text) ==
    /\ Len(text) >= MinBlockLen
    /\ \/ CveOf(text) # None
       \/ Contains(text, <<"U6F0F", "U6D1E">>)
       \/ SevOf(text) # None

\* the blocks taken so far that are candidates, in their order
CandidatesTaken ==
    SelectSeq([i \in 1..(res.b - 1) |-> arg[i]], LAMBDA b : IsCandidate(b.text))

\* no sibling of the block carries a label of the field
NoLabel(b, f) ==
    \A n \in 1..Len(b.sibs) : ~AnyIn(label_map[f], Lower(b.sibs[n]))

\* C23: the records emitted are, one for one and in order, those of the
\* candidate blocks taken so far; none has an empty name or description; a
\* field no sibling labels is the prefix of the block text, of at most 120
\* characters for the name and 1500 for the description
C23_OneRecordPerCandidate ==
    fn = "extract_from_blocks" =>
        \A taken \in {CandidatesTaken} :
            /\ Len(res.vulns) = Len(taken)
            /\ \A j \in 1..Len(res.vulns) :
                   /\ res.vulns[j].name # <<>> /\ res.vulns[j].desc # <<>>
                   /\ NoLabel(taken[j], "name") =>
                          /\ Len(res.vulns[j].name) <= NameMax
                          /\ IsPrefix(res.vulns[j].name, taken[j].text)
                          /\ \/ Len(res.vulns[j].name) = NameMax
                             \/ res.vulns[j].name = taken[j].text
                   /\ NoLabel(taken[j], "desc") =>
                          /\ Len(res.vulns[j].desc) <= DescMax
                          /\ IsPrefix(res.vulns[j].desc, taken[j].text)
                          /\ \/ Len(res.vulns[j].desc) = DescMax
                             \/ res.vulns[j].desc = taken[j].text

\* C23 witness: a document of a short block and a candidate longer than the
\* description prefix gave one record, its name cut to 120 and its
\* description to 1500 characters
C23_Witness ==
    /\ fn = "extract_from_blocks"
    /\ Len(arg) = 2 /\ res.b = 3
    /\ Len(arg[1].text) < MinBlockLen
    /\ Len(arg[2].text) > DescMax
    /\ Len(res.vulns) = 1
    /\ Len(res.vulns[1].name) = NameMax
    /\ Len(res.vulns[1].desc) = DescMax

---------------------------------------------------------------------------
(* The object-literal scanner on bounded texts (SpecScan) *)

InitScan ==
    /\ pc = "ready"
    /\ res = None
    /\ fn = "extract_js_object_by_marker"
    /\ arg \in [text : SeqsUpTo({"m", "{", "}", "x"}, MaxScan),
                marker : {<<"m">>, <<"x", "m">>}]
    /\ NoRun

CallExtractJsObject ==
    /\ pc = "ready" /\ fn = "extract_js_object_by_marker"
    /\ res' = extract_js_object_by_marker(arg.text, arg.marker)
    /\ pc' = "done"
    /\ UNCHANGED <<fn, arg, report, zhg, run>>

NextScan == CallExtractJsObject

SpecScan == InitScan /\ [][NextScan]_vars

Scanned == fn = "extract_js_object_by_marker" /\ pc = "done"

\* the number of opening braces of s minus the number of closing ones
BraceDepth(s) ==
    Cardinality({i \in 1..Len(s) : s[i] = "{"})
        - Cardinality({i \in 1..Len(s) : s[i] = "}"})

\* the 1-based positions at which the marker starts in the text
MarkerStarts ==
    {i \in 1..(Len(arg.text) - Len(arg.marker) + 1) :
         SubSeq(arg.text, i, i + Len(arg.marker) - 1) = arg.marker}

\* the 1-based positions of the opening braces at or after the first marker
BracesAfterMarker ==
    {b \in 1..Len(arg.text) :
         /\ arg.text[b] = "{"
         /\ \E j \in MarkerStarts : j <= b}

\* the 1-based positions at or after b at which the braces opened from b on
\* are all closed
BalancedEnds(b) ==
    {e \in b..Len(arg.text) :
         arg.text[e] = "}" /\ BraceDepth(SubSeq(arg.text, b, e)) = 0}

\* C22: when the marker occurs, an opening brace follows and the braces
\* balance, the result is the text from the first opening brace at or after
\* the marker through the first closing brace at which the depth is zero
\* again: it starts with an opening and ends with a closing brace, holds as
\* many of the one as of the other and has positive depth at every proper
\* prefix; in every other case the result is none
C22_BalancedScanner ==
    Scanned =>
        IF MarkerStarts # {} /\ BracesAfterMarker # {}
        THEN LET b == CHOOSE b \in BracesAfterMarker :
                          \A c \in BracesAfterMarker : b <= c
             IN  IF BalancedEnds(b) # {}
                 THEN LET e == CHOOSE e \in BalancedEnds(b) :
                                   \A d \in BalancedEnds(b) : e <= d
                      IN  /\ res = SubSeq(arg.text, b, e)
                          /\ Head(res) = "{" /\ res[Len(res)] = "}"
                          /\ BraceDepth(res) = 0
                          /\ \A n \in 1..(Len(res) - 1) :
                                 BraceDepth(SubSeq(res, 1, n)) > 0
                 ELSE res = None
        ELSE res = None

\* C22 witness: a nested object literal after the marker was returned whole,
\* without the text before and after it
C22_Witness ==
    /\ Scanned
    /\ arg.text = <<"m", "{", "{", "}", "}">>
    /\ res = <<"{", "{", "}", "}">>

---------------------------------------------------------------------------
(* nessus.py main: the scan results and 中高危漏洞.xlsx (SpecNessus) *)

\* generate_scan_results: one row of nine cells per finding, 序号 1..n, IP,
\* 端口, 漏洞名称, 风险等级, 漏洞说明, 加固建议, CVE, 扫描返回信息.  The name, the
\* level, the description and the advice are those of the reference table
\* when the plugin has an entry there (ref.found); else Name, RISK_MAPPING
\* of the Risk cell (未知 for a Risk outside it), Synopsis + '\n' +
\* Description and Solution
generate_scan_results(df_vulns) ==
    LET RISK_MAPPING ==
            <<<<Chars("Critical"), <<"U7D27", "U6025">>>>,
              <<Chars("High"), <<"U9AD8">>>>,
              <<Chars("Medium"), <<"U4E2D">>>>,
              <<Chars("Low"), <<"U4F4E">>>>,
              <<Chars("None"), <<"U65E0">>>>>>
        Mapped(risk) ==
            IF \E i \in 1..Len(RISK_MAPPING) : RISK_MAPPING[i][1] = risk
            THEN RISK_MAPPING[CHOOSE i \in 1..Len(RISK_MAPPING) :
                                  RISK_MAPPING[i][1] = risk][2]
            ELSE <<"U672A", "U77E5">>
    IN  [i \in 1..Len(df_vulns) |->
            LET row == df_vulns[i]
            IN  <<IntCell(i), row.Host, row.Port,
                  IF row.ref.found THEN row.ref.name ELSE row.Name,
                  IF row.ref.found THEN row.ref.risk ELSE Mapped(row.Risk),
                  IF row.ref.found THEN row.ref.desc
                  ELSE row.Synopsis \o <<"\n">> \o row.Description,
                  IF row.ref.found THEN row.ref.fix ELSE row.Solution,
                  row.CVE, row.Output>>]

\* results_df[results_df['风险等级'].isin(['紧急', '高' '中'])] written by
\* write_scan_results_only to 整理结果/中高危漏洞.xlsx: the two adjacent
\* literals of the list are the one string 高中, so the rows kept are those
\* whose level is 紧急 or 高中; the header is written with or without rows
high_risk_file(results_df) ==
    [exists |-> TRUE,
     columns |-> ScanResultsHeader,
     rows |-> SelectSeq(results_df,
                        LAMBDA row : row[5] \in {<<"U7D27", "U6025">>,
                                                 <<"U9AD8">> \o <<"U4E2D">>})]

\* df_vulns of load_input_data: every finding has the cells of the scan (the
\* blank ones filled with '') and ref, the entry of the reference table for
\* its plugin (found FALSE without one); a finding whose Risk is None never
\* reaches df_vulns.  Nothing was written yet
InitNessus ==
    /\ pc = "ready"
    /\ fn = "nessus_main"
    /\ arg \in SeqsUpTo([Host : {Chars("10.0.0.1")},
                         Port : {Chars("22")},
                         Name : {Chars("OpenSSH")},
                         Risk : {Chars("Critical"), Chars("High"), Chars("Medium"),
                                 Chars("Low"), Chars("Info")},
                         Synopsis : {Chars("weak")},
                         Description : {Chars("kex")},
                         Solution : {<<>>},
                         CVE : {<<>>},
                         Output : {Chars("banner")},
                         ref : {[found |-> FALSE, name |-> <<>>, risk |-> <<>>,
                                 desc |-> <<>>, fix |-> <<>>],
                                [found |-> TRUE, name |-> Chars("SSH"),
                                 risk |-> <<"U4E2D">>, desc |-> Chars("old"),
                                 fix |-> Chars("update")]}],
                        MaxScanRows)
    /\ res = [written |-> FALSE, results_df |-> <<>>, high_risk_df |-> <<>>]
    /\ NoRun

\* main of nessus.py from df_vulns on: nothing is written for an empty
\* df_vulns; else the scan results are generated and written, and the rows
\* that pass the filter of line 170 replace 整理结果/中高危漏洞.xlsx
NessusMain ==
    /\ pc = "ready" /\ fn = "nessus_main"
    /\ IF arg = <<>>
       THEN UNCHANGED <<res, zhg>>
       ELSE /\ res' = [written |-> TRUE,
                        results_df |-> generate_scan_results(arg),
                        high_risk_df |-> high_risk_file(generate_scan_results(arg)).rows]
            /\ zhg' = high_risk_file(generate_scan_results(arg))
    /\ pc' = "done"
    /\ UNCHANGED <<fn, arg, report, run>>

NextNessus == NessusMain

SpecNessus == InitNessus /\ [][NextNessus]_vars

\* C24: the table written to 整理结果/中高危漏洞.xlsx holds exactly the
\* scan-result rows whose level is 紧急, 高 or 中, in their original order
C24_MediumAndAboveKept ==
    fn = "nessus_main" /\ pc = "done" /\ res.written =>
        /\ zhg.exists
        /\ zhg.rows =
               SelectSeq(res.results_df,
                         LAMBDA row : row[5] \in {<<"U7D27", "U6025">>, <<"U9AD8">>,
                                                  <<"U4E2D">>})

---------------------------------------------------------------------------
(* controller.py main: the seven steps (SpecController) *)

\* total_steps of main, the length of its list of steps
TotalSteps == 7

\* results = [] and the loop of main before its first step; running holds the
\* steps whose command was started and has not terminated, waiting tells
\* that run_command of the step started its command and has not returned
InitController ==
    /\ pc = "main"
    /\ fn = "controller_main"
    /\ arg = None
    /\ res = [step |-> 1, results |-> <<>>, running |-> {}, waiting |-> FALSE]
    /\ NoRun

\* one turn of the loop of main, run_command for the next step up to Popen:
\* the target file is missing (an entry, return); Popen raises
\* FileNotFoundError (an entry); Popen or os.makedirs raises another
\* exception, as PermissionError for a target that is not executable (the
\* entry of except Exception, no command was started); or the command is
\* started and run_command goes on to copy its output
RunCommand ==
    /\ fn = "controller_main"
    /\ res.step <= TotalSteps
    /\ ~res.waiting
    /\ \E outcome \in {"missing", "not_found", "error", "started"} :
           res' = IF outcome = "started"
                  THEN [res EXCEPT !.running = @ \cup {res.step},
                                   !.waiting = TRUE]
                  ELSE [res EXCEPT !.step = @ + 1,
                                   !.results = Append(@, [step |-> res.step,
                                                          status |-> outcome])]
    /\ UNCHANGED <<fn, arg, pc, report, zhg, run>>

\* run_command after Popen: the output of the command is copied line by
\* line and proc.wait() returns once the command has terminated, with the
\* exit code 0 or another (an entry); or writing the input or copying the
\* output raises (a line that cannot be decoded), which except Exception
\* turns into an entry without proc.wait(): the command, when it has not
\* terminated, is left running
WaitCommand ==
    /\ fn = "controller_main"
    /\ res.waiting
    /\ \E outcome \in {"success", "failed", "error"} :
           /\ outcome # "error" => res.step \notin res.running
           /\ res' = [res EXCEPT !.step = @ + 1,
                                 !.waiting = FALSE,
                                 !.results = Append(@, [step |-> res.step,
                                                        status |-> outcome])]
    /\ UNCHANGED <<fn, arg, pc, report, zhg, run>>

\* a command terminates: that of the step run_command waits for, or one
\* that was left running
CommandExits ==
    /\ fn = "controller_main"
    /\ \E s \in res.running : res' = [res EXCEPT !.running = @ \ {s}]
    /\ UNCHANGED <<fn, arg, pc, report, zhg, run>>

NextController == RunCommand \/ WaitCommand \/ CommandExits

SpecController == InitController /\ [][NextController]_vars

\* C30: the steps run in the order 1..7, run_command of a step begins only
\* when the command of every earlier step has terminated, every step appends
\* exactly one entry, and when main finishes results holds the seven entries
\* in step order
C30_StepsStrictlyInOrder ==
    /\ [](fn = "controller_main" =>
              /\ Len(res.results) = res.step - 1
              /\ \A i \in 1..Len(res.results) : res.results[i].step = i
              /\ res.step = TotalSteps + 1 => Len(res.results) = TotalSteps)
    /\ [][fn = "controller_main" /\ ~res.waiting
              /\ (res'.waiting \/ res'.step # res.step)
          => res.running = {}]_vars

---------------------------------------------------------------------------
(* The severity normalizer on bounded inputs (SpecRisk) *)

\* the concatenation of a sequence of texts
RECURSIVE Concat(_)
Concat(texts) == IF texts = <<>> THEN <<>> ELSE Head(texts) \o Concat(Tail(texts))

\* the severity tokens: None and the texts put together from at most MaxFrags
\* of the pieces Critical, high, HI, GH, 严重, 高危, 高, 危, 中高, 中危, 中,
\* Medium, low, 低, info, 信息, 4, 5, 45, a space, a period, foobar, [foobar],
\* an opening bracket and a quote
RiskTokens ==
    {Concat(fs) :
        fs \in SeqsUpTo({Chars("Critical"), Chars("high"), Chars("HI"), Chars("GH"),
                         <<"U4E25", "U91CD">>, <<"U9AD8", "U5371">>, <<"U9AD8">>,
                         <<"U5371">>, <<"U4E2D", "U9AD8">>, <<"U4E2D", "U5371">>,
                         <<"U4E2D">>, Chars("Medium"), Chars("low"), <<"U4F4E">>,
                         Chars("info"), <<"U4FE1", "U606F">>, Chars("4"), Chars("5"),
                         Chars("45"), Chars(" "), Chars("."), Chars("foobar"),
                         Chars("[foobar]"), Chars("["), Chars("'")},
                        MaxFrags)}
    \cup {None}

InitRisk ==
    /\ pc = "ready"
    /\ res = None
    /\ fn = "normalize_risk"
    /\ arg \in RiskTokens
    /\ NoRun

CallNormalizeRisk ==
    /\ pc = "ready" /\ fn = "normalize_risk"
    /\ res' = normalize_risk(arg)
    /\ pc' = "done"
    /\ UNCHANGED <<fn, arg, report, zhg, run>>

NextRisk == CallNormalizeRisk

SpecRisk == InitRisk /\ [][NextRisk]_vars

---------------------------------------------------------------------------
(* The text cleaner on bounded inputs (SpecClean) *)

CleanInputs(text, list, item) ==
    {[kind |-> "none"]}
    \cup {[kind |-> "str", val |-> t] : t \in SeqsUpTo({"[", "]", "'", "\"", " ", "a", "\n"}, text)}
    \cup {[kind |-> "list", val |-> l] :
             l \in SeqsUpTo(SeqsUpTo({"[", " ", "a"}, item) \cup {None}, list)}

InitClean ==
    /\ pc = "ready"
    /\ res = None
    /\ fn = "clean_text_list_or_str"
    /\ arg \in CleanInputs(MaxText, MaxList, MaxItem)
    /\ NoRun

\* the cleaner applied once, and applied again to its own output
CallClean ==
    /\ pc = "ready" /\ fn = "clean_text_list_or_str"
    /\ LET once == clean_text_list_or_str(arg)
       IN  res' = [once |-> once,
                   twice |-> clean_text_list_or_str([kind |-> "str", val |-> once])]
    /\ pc' = "done"
    /\ UNCHANGED <<fn, arg, report, zhg, run>>

NextClean == CallClean

SpecClean == InitClean /\ [][NextClean]_vars

---------------------------------------------------------------------------
(* Runs of rsas2check.py and rsas.py main over the two workbooks (SpecRsas) *)

\* canonical records as rsas2check.py parses them: a 高, a 中 and a 低 finding
\* on three hosts
ReportPool ==
    {[seq |-> <<>>, IP |-> Chars("10.0.0.") \o <<h[1]>>, port |-> Chars("22"),
      name |-> Chars("OpenSSH"), risk |-> h[2], desc |-> Chars("weak"),
      fix |-> <<>>, CVE |-> <<>>] :
        h \in {<<"1", <<"U9AD8">>>>, <<"2", <<"U4E2D">>>>, <<"3", <<"U4F4E">>>>}}

\* no workbook was written yet, or the controller ran nessus.py before:
\* 中高危漏洞.xlsx is then as nessus.py main leaves it, with the header of the
\* scan results (the canonical columns and 扫描返回信息) and the rows that
\* pass its filter: none for a scan with one Low finding, the row numbered 2
\* for a scan with a Low and a Critical finding
InitRsas ==
    /\ pc = "idle"
    /\ fn = "main"
    /\ arg = None
    /\ res = None
    /\ report = NoFile
    /\ LET finding(risk) ==
               [Host |-> Chars("10.0.0.1"), Port |-> Chars("22"),
                Name |-> Chars("OpenSSH"), Risk |-> risk,
                Synopsis |-> Chars("weak"), Description |-> Chars("kex"),
                Solution |-> <<>>, CVE |-> <<>>, Output |-> Chars("banner"),
                ref |-> [found |-> FALSE, name |-> <<>>, risk |-> <<>>,
                         desc |-> <<>>, fix |-> <<>>]]
       IN  zhg \in {NoFile}
                   \cup {high_risk_file(generate_scan_results(df_vulns)) :
                            df_vulns \in {<<finding(Chars("Low"))>>,
                                          <<finding(Chars("Low")),
                                            finding(Chars("Critical"))>>}}
    /\ run = NotRun

\* rsas2check.py process_folder: the parsed records are merged and written
\* to 漏洞报告.xlsx, replacing the file
Rsas2Check ==
    /\ \E batch \in SeqsUpTo(ReportPool, MaxReport) :
           report' = to_excel(merge_vulns(batch))
    /\ pc' = "reported"
    /\ UNCHANGED <<fn, arg, res, zhg, run>>

\* rsas.py main without 漏洞报告.xlsx: sys.exit(1)
RsasMainNoInput ==
    /\ ~report.exists
    /\ pc' = "failed"
    /\ UNCHANGED <<fn, arg, res, report, zhg, run>>

\* rsas.py main: align the report, keep the 中 / 高 rows, renumber, read the
\* persisted table if there is one, drop the all-blank rows of both, merge
\* and write 中高危漏洞.xlsx
RsasMain ==
    /\ report.exists
    /\ \E df_aligned \in {read_aligned(report)} :
       \E df_exist_aligned \in {read_aligned(zhg)} :
       \E df_filtered \in
              {renumber(SelectSeq(df_aligned, LAMBDA row : is_zhong_or_gao(row.risk)))} :
       \E exist_rows \in {drop_all_empty_rows(df_exist_aligned)} :
       \E new_rows \in {drop_all_empty_rows(df_filtered)} :
           /\ Len(exist_rows) + Len(new_rows) <= MaxTable
           /\ zhg' = to_excel(MergeStage(exist_rows, new_rows))
           /\ run' = [ran |-> TRUE, before |-> zhg, exist |-> exist_rows,
                      new |-> new_rows, again |-> run.ran, prev_new |-> run.new]
    /\ pc' = "merged"
    /\ UNCHANGED <<fn, arg, res, report>>

NextRsas == Rsas2Check \/ RsasMainNoInput \/ RsasMain

SpecRsas == InitRsas /\ [][NextRsas]_vars

---------------------------------------------------------------------------
(* Claims about the merge stage of rsas.py main (SpecRsas) *)

Merged == pc = "merged"

\* the rows of a workbook with the canonical header, as records
TableRecords(file) ==
    [k \in 1..Len(file.rows) |->
        [f \in {TARGET_COLS[i] : i \in 1..Len(TARGET_COLS)} |->
            file.rows[k][CHOOSE i \in 1..Len(TARGET_COLS) : TARGET_COLS[i] = f]]]

Contents(recs) == {Content(recs[i]) : i \in 1..Len(recs)}

\* every field but 风险等级 and 序号 is empty and 风险等级 is the marker
IsSentinel(r) ==
    /\ r.risk = <<"U6682", "U672A", "U53D1", "U73B0", "U4E2D", "U9AD8", "U5371",
                  "U6F0F", "U6D1E">>
    /\ \A f \in {"IP", "port", "name", "desc", "fix", "CVE"} : r[f] = <<>>

SentinelCount(recs) == Cardinality({i \in 1..Len(recs) : IsSentinel(recs[i])})

\* C2: the merge of the persisted table with a new batch is append, dedup,
\* renumber: no identity (IP, 端口, 漏洞名称, CVE) occurs twice in the table
\* written, and a run with the same new batch against the table the run
\* before it persisted leaves the set of records and the row count unchanged
C2_DedupAcrossRuns ==
    Merged =>
        LET out == TableRecords(zhg)
        IN  /\ \A i, j \in 1..Len(out) :
                   Identity(out[i]) = Identity(out[j]) => i = j
            /\ run.again /\ run.new = run.prev_new =>
                   /\ Len(zhg.rows) = Len(run.before.rows)
                   /\ Contents(out) = Contents(TableRecords(run.before))

\* C3 as stated: for every persisted table T, a run whose new batch is empty
\* writes exactly the rows of T
C3_MergeWithEmptyIsT ==
    Merged /\ run.before.exists /\ run.new = <<>> => zhg.rows = run.before.rows

\* C3 amended: for every persisted table T with at least one row, a run
\* whose new batch is empty writes exactly the rows of T, in the same order,
\* with the canonical columns only and numbered 1..n in that order; a table
\* with the canonical header whose rows are numbered 1..n is written back as
\* it was (a table without rows is replaced by the marker row, see C4)
C3_MergeWithEmptyKeepsNonEmptyT ==
    Merged /\ run.before.exists /\ run.before.rows # <<>> /\ run.new = <<>> =>
        \A T \in {TableRecords(run.before)} :
        \A out \in {TableRecords(zhg)} :
            /\ zhg.columns = CanonicalHeader
            /\ Len(out) = Len(T)
            /\ \A k \in 1..Len(T) :
                   Content(out[k]) = Content(T[k]) /\ out[k].seq = IntCell(k)
            /\ (/\ run.before.columns = CanonicalHeader
                /\ \A k \in 1..Len(T) : T[k].seq = IntCell(k))
                   => zhg = run.before

\* C3 witness: a table of two findings went through a run whose report held
\* no 中 / 高 row and was written back as it was
C3_Witness ==
    /\ Merged
    /\ run.new = <<>>
    /\ report.rows # <<>>
    /\ Len(run.before.rows) = 2
    /\ ~IsSentinel(TableRecords(run.before)[1])
    /\ zhg = run.before

\* C4: when the existing batch and the new batch are both empty after the
\* all-blank rows are removed, the table written is one record with 序号 1,
\* 风险等级 the marker 暂未发现中高危漏洞 and every other field empty; when a
\* batch is non-empty the run adds no such record to those it read
C4_SentinelIffBothEmpty ==
    Merged =>
        LET out == TableRecords(zhg)
        IN  /\ run.exist = <<>> /\ run.new = <<>> =>
                   /\ Len(out) = 1
                   /\ IsSentinel(out[1])
                   /\ out[1].seq = Chars("1")
            /\ run.exist # <<>> \/ run.new # <<>> =>
                   /\ SentinelCount(out) = SentinelCount(run.exist \o run.new)
                   /\ Len(out) = Len(run.exist) + Len(run.new)

\* C4 witness: a report with findings none of which is 中 or 高 met a
\* persisted table without rows, and the marker row was written
C4_Witness ==
    /\ Merged
    /\ run.before.exists
    /\ report.rows # <<>>
    /\ run.exist = <<>> /\ run.new = <<>>
    /\ Len(zhg.rows) = 1
    /\ IsSentinel(TableRecords(zhg)[1])

\* C25: the table written holds the marker row only while it holds no real
\* finding: a table with a marker row holds nothing else, and after a run
\* whose new batch is non-empty the table holds no marker row, whatever the
\* table read
C25_SentinelOnlyWithoutFindings ==
    Merged =>
        LET out == TableRecords(zhg)
        IN  /\ SentinelCount(out) > 0 => \A i \in 1..Len(out) : IsSentinel(out[i])
            /\ run.new # <<>> => SentinelCount(out) = 0

---------------------------------------------------------------------------
(* Claims about the severity normalizer (SpecRisk) *)

\* word occurs in token when the case of the token's letters is ignored
CIContains(token, word) ==
    \E i \in 1..(Len(token) - Len(word) + 1) :
        \A k \in 1..Len(word) : LowerChar(token[i + k - 1]) = word[k]

\* the token holds one of the words of a rule
HasAny(token, words) == token # None /\ \E w \in words : CIContains(token, w)

\* the token holds a digit 4 or 5 with no letter, digit or ideograph next to it
Standalone45(token) ==
    /\ token # None
    /\ \E i \in 1..Len(token) :
           /\ token[i] \in {"4", "5"}
           /\ i > 1 => ~IsWordChar(token[i - 1])
           /\ i < Len(token) => ~IsWordChar(token[i + 1])

\* C7: normalize_risk returns the label of the first rule, in the order
\* 高 words, 中 words, 低 words, 信息 words, standalone 4 or 5, that the token
\* matches as a substring with case ignored, and the token itself when no
\* rule matches (the empty text for an absent token); Critical gives 高,
\* 中危 gives 中, foobar gives foobar
C7_FirstMatchingRule ==
    pc = "done" /\ fn = "normalize_risk" =>
        LET high == HasAny(arg, HighWords)
            medium == HasAny(arg, MediumWords)
            low == HasAny(arg, LowWords)
            info == HasAny(arg, InfoWords)
            digit == Standalone45(arg)
        IN  /\ high => res = <<"U9AD8">>
            /\ ~high /\ medium => res = <<"U4E2D">>
            /\ ~high /\ ~medium /\ low => res = <<"U4F4E">>
            /\ ~high /\ ~medium /\ ~low /\ info => res = <<"U4FE1", "U606F">>
            /\ ~high /\ ~medium /\ ~low /\ ~info /\ digit => res = <<"U9AD8">>
            /\ ~high /\ ~medium /\ ~low /\ ~info /\ ~digit =>
                   res = IF arg = None THEN <<>> ELSE arg
            /\ arg = Chars("Critical") => res = <<"U9AD8">>
            /\ arg = <<"U4E2D", "U5371">> => res = <<"U4E2D">>
            /\ arg = Chars("foobar") => res = Chars("foobar")

\* C7 witness: a token written with capitals holds a word of the first rule
\* and a word of a later rule, and gets the first rule's label 高
C7_Witness ==
    /\ pc = "done" /\ fn = "normalize_risk"
    /\ arg # None
    /\ arg # Lower(arg)
    /\ HasAny(arg, HighWords)
    /\ HasAny(arg, MediumWords \cup LowWords \cup InfoWords)
    /\ res = <<"U9AD8">>

\* the severity Strategy B and normalize_record give for the risk cell t:
\* extract_from_table cleans the cell (txt = _clean_text_list_or_str(v)) and
\* keeps the first match of SEV_INLINE_RE in txt, else txt; normalize_record
\* cleans that value again and gives it to normalize_risk
InlineThenNormalized(t) ==
    LET txt == clean_text_list_or_str([kind |-> "str", val |-> t])
        vr == IF SevOf(txt) # None THEN SevOf(txt) ELSE txt
    IN  normalize_risk(clean_text_list_or_str([kind |-> "str", val |-> vr]))

\* the first match m of SEV_INLINE_RE in the token is a word of the first
\* rule of normalize_risk that the token matches
InlineTokenOfFirstRule(m) ==
    \E rule \in {IF HasAny(arg, HighWords) THEN HighWords
                 ELSE IF HasAny(arg, MediumWords) THEN MediumWords
                 ELSE IF HasAny(arg, LowWords) THEN LowWords
                 ELSE {}} :
        HasAny(m, rule)

\* the token matches some rule of normalize_risk
MatchesSomeRule ==
    \/ HasAny(arg, HighWords \cup MediumWords \cup LowWords \cup InfoWords)
    \/ Standalone45(arg)

\* the token has no whitespace, bracket or quote at either end
HasCleanEnds ==
    arg = <<>> \/ (/\ arg[1] \notin Whitespace \cup {"[", "]", "'", "\""}
                   /\ arg[Len(arg)] \notin Whitespace \cup {"[", "]", "'", "\""})

\* C28 as stated: for every risk-cell text the first inline token, else the
\* text, normalized by way of normalize_record, is the whole text normalized
C28_PathsAgree ==
    pc = "done" /\ fn = "normalize_risk" /\ arg # None =>
        InlineThenNormalized(arg) = res

\* C28 amended: the two paths agree for every risk-cell text whose first
\* inline token is a word of the first rule of normalize_risk the whole text
\* matches, and for every text without an inline token that matches a rule
\* of normalize_risk or has no whitespace, bracket or quote at its ends
\* (Strategy B takes the leftmost token, normalize_risk the first rule in its
\* order: 中高危 is 中 by the one and 高 by the other; a text no rule matches is
\* cleaned on the one path and returned as it is on the other: [foobar] is
\* foobar by the one and [foobar] by the other)
C28_PathsAgreeOnFirstRuleToken ==
    pc = "done" /\ fn = "normalize_risk" /\ arg # None =>
        \A m \in {SevOf(arg)} :
            \/ m # None /\ InlineTokenOfFirstRule(m)
            \/ m = None /\ (MatchesSomeRule \/ HasCleanEnds)
            => InlineThenNormalized(arg) = res

\* C28 witness: a quoted cell with a medium token followed by other text
\* went both ways to 中
C28_Witness ==
    /\ pc = "done" /\ fn = "normalize_risk" /\ arg # None
    /\ arg = Chars("'") \o <<"U4E2D", "U5371">>
    /\ SevOf(arg) = <<"U4E2D", "U5371">>
    /\ InlineTokenOfFirstRule(SevOf(arg))
    /\ InlineThenNormalized(arg) = LabelMedium
    /\ res = LabelMedium

\* C29: normalize_risk is idempotent: the label or the token it returns is
\* returned for itself; the four labels are returned for themselves, and so
\* is every token that no rule matches
C29_RiskIdempotent ==
    pc = "done" /\ fn = "normalize_risk" =>
        /\ normalize_risk(res) = res
        /\ arg \in {LabelHigh, LabelMedium, LabelLow, LabelInfo} => res = arg
        /\ arg # None /\ arg # <<>> /\ res = arg => normalize_risk(arg) = arg

\* C29 witness: a standalone 5 between blanks got the label 高, which no rule
\* matches and which is returned for itself
C29_Witness ==
    /\ pc = "done" /\ fn = "normalize_risk"
    /\ arg = Chars(" 5")
    /\ res = LabelHigh
    /\ ~HasAny(res, HighWords \cup MediumWords \cup LowWords \cup InfoWords)
    /\ normalize_risk(res) = LabelHigh

---------------------------------------------------------------------------
(* Claims about the text cleaner (SpecClean) *)

\* C8: the text cleaner is idempotent: cleaning its own output returns that
\* output unchanged, for a string and for a list
C8_Idempotent ==
    pc = "done" /\ fn = "clean_text_list_or_str" => res.twice = res.once

====
